---- MODULE Spec2Model ----
(***************************************************************************)
(* Entity-identity and graph-consistency engine of wdiw.                   *)
(*                                                                         *)
(* Two deployments of the same CRUD surface are modelled:                  *)
(*   - the relational one (src/main.py -> src/crud.py, src/database.py),   *)
(*     a SQLAlchemy session over SQLite;                                   *)
(*   - the graph one (src/app/main.py -> src/app/services/companies.py,    *)
(*     src/app/db/neo4j.py, src/agent/company_agent.py), auto-commit       *)
(*     Cypher statements against Neo4j.                                    *)
(* Strings that the code inspects character by character (company names,   *)
(* tag names) are sequences of one-character strings; NULL / None is the   *)
(* string "NULL" for text columns, 0 for integer columns and the empty     *)
(* sequence for optional sub-objects and optional lists.                   *)
(***************************************************************************)
EXTENDS Integers, Sequences, FiniteSets, Bags, TLC

VARIABLES
    backend,            \* which application is running: "sql" or "graph"
    companies,          \* table companies
    founders,           \* table founders (role records)
    people,             \* table people
    tags,               \* table tags
    investors,          \* table investors
    company_investors,  \* association table company_investors (a bag of rows)
    company_tags,       \* association table company_tags
    founder_tags,       \* association table founder_tags
    company_relations,  \* table company_relations
    gCompany,           \* (:Company) nodes
    gPerson,            \* (:Person) nodes
    gTag,               \* (:Tag) nodes
    gInvestor,          \* (:Investor) nodes
    gHasTag,            \* (c:Company)-[:HAS_TAG]->(t:Tag)
    gPersonTag,         \* (p:Person)-[:HAS_TAG]->(t:Tag)
    gInvestedIn,        \* (i:Investor)-[:INVESTED_IN]->(c:Company)
    gEmployeeOf,        \* (p:Person)-[:EMPLOYEE_OF]->(c:Company)
    gFounderOf,         \* (p:Person)-[:FOUNDER_OF]->(c:Company)
    gRelated,           \* (p:Company)-[:RELATED {type}]->(c:Company)
    nops,               \* number of requests served so far
    last,               \* the request served last and its outcome
    issued,             \* history: the company ids handed out so far
    failed,             \* history: some request so far ended in an error
    calls               \* the two concurrent create_company calls: where each stands

sqlvars == <<companies, founders, people, tags, investors, company_investors,
             company_tags, founder_tags, company_relations>>
graphvars == <<gCompany, gPerson, gTag, gInvestor, gHasTag, gPersonTag,
               gInvestedIn, gEmployeeOf, gFounderOf, gRelated>>
vars == <<backend, sqlvars, graphvars, nops, last, issued, failed, calls>>

\* ------------------------------------------------------------------ bounds

\* Requests served in one run of the relational application, and of the graph
\* application (which starts empty).
MaxOps == 3
MaxGraphOps == 4

\* ------------------------------------------------------------------ helpers

NULL == "NULL"

Max(S) == CHOOSE x \in S : \A y \in S : y <= x

Range(s) == {s[i] : i \in 1..Len(s)}

\* ------------------------------------------------------------------ text

\* The letters used in names; every other character (" ", "-") is no letter.
LowerCase == {"a", "b", "c"}
UpperCase == {"A", "B", "C"}

\* str.lower() on one character
Lower(c) == IF c = "A" THEN "a" ELSE IF c = "B" THEN "b" ELSE IF c = "C" THEN "c" ELSE c

Digits == {"1"}

IsSlugChar(c) == c \in LowerCase \cup Digits

RECURSIVE LowerAll(_)
LowerAll(s) == IF s = <<>> THEN <<>> ELSE <<Lower(Head(s))>> \o LowerAll(Tail(s))

\* re.sub(r'[^a-z0-9]+', '-', s): every maximal run of other characters
\* becomes one hyphen.
RECURSIVE SubRuns(_, _)
SubRuns(s, inRun) ==
    IF s = <<>> THEN <<>>
    ELSE IF IsSlugChar(Head(s)) THEN <<Head(s)>> \o SubRuns(Tail(s), FALSE)
    ELSE IF inRun THEN SubRuns(Tail(s), TRUE)
    ELSE <<"-">> \o SubRuns(Tail(s), TRUE)

RECURSIVE LStrip(_, _)
LStrip(s, chars) ==
    IF s # <<>> /\ Head(s) \in chars THEN LStrip(Tail(s), chars) ELSE s

RECURSIVE RStrip(_, _)
RStrip(s, chars) ==
    IF s # <<>> /\ s[Len(s)] \in chars
    THEN RStrip(SubSeq(s, 1, Len(s) - 1), chars) ELSE s

\* create_slug without its final strip('-').
create_slug_unstripped(name) == SubRuns(LowerAll(name), FALSE)

create_slug(name) == RStrip(LStrip(SubRuns(LowerAll(name), FALSE), {"-"}), {"-"})

\* str.strip(): leading and trailing whitespace removed
strip(s) == RStrip(LStrip(s, {" "}), {" "})

\* ------------------------------------------------------------------ relational store: the session

\* The tables as one value.
DB == [companies |-> companies, founders |-> founders, people |-> people,
       tags |-> tags, investors |-> investors,
       company_investors |-> company_investors, company_tags |-> company_tags,
       founder_tags |-> founder_tags, company_relations |-> company_relations]

\* A request gets a fresh session on the committed tables (get_db).
\* floored notes that max(0, ...) of update_tag_usage_count cut a count off at 0.
Session(db) == [db |-> db, committed |-> db, err |-> FALSE, why |-> "", floored |-> FALSE]

\* db.commit(): what the session wrote becomes durable.
Commit(s) == [s EXCEPT !.committed = s.db]

\* An IntegrityError leaves the handler; get_db closes the session and whatever
\* was written since the last commit is rolled back.
\* why names the constraint (or "stale" for a StaleDataError).
Raise(s, why) == [db |-> s.committed, committed |-> s.committed, err |-> TRUE,
                  why |-> why, floored |-> s.floored]

\* INTEGER PRIMARY KEY without AUTOINCREMENT: SQLite hands out the largest
\* rowid of the table plus one.
NextId(rows) == Max({r.id : r \in rows} \cup {0}) + 1

\* ------------------------------------------------------------------ relational store: tags

get_tag_by_name_and_category(db, name, category) ==
    {t \in db.tags : t.name = name /\ t.category = category}

\* tags.name is UNIQUE: the INSERT fails when any tag, of any category, has
\* the name. create_tag commits.
create_tag(s, name, category) ==
    IF \E t \in s.db.tags : t.name = name
    THEN Raise(s, "tags.name")
    ELSE Commit([s EXCEPT !.db.tags = @ \cup
            {[id |-> NextId(s.db.tags), name |-> name, category |-> category,
              usage_count |-> 0]}])

get_or_create_tag(s, name, category) ==
    IF get_tag_by_name_and_category(s.db, name, category) # {}
    THEN s
    ELSE create_tag(s, name, category)

TagId(db, name, category) ==
    (CHOOSE t \in get_tag_by_name_and_category(db, name, category) : TRUE).id

\* A variant of update_tag_usage_count without the max(0, ...).
update_tag_usage_count_unclamped(s, tag_id, increment) ==
    IF \E t \in s.db.tags : t.id = tag_id
    THEN Commit([s EXCEPT
            !.db.tags = {IF t.id = tag_id
                         THEN [t EXCEPT !.usage_count = t.usage_count + increment]
                         ELSE t : t \in @}])
    ELSE s

update_tag_usage_count(s, tag_id, increment) ==
    IF \E t \in s.db.tags : t.id = tag_id
    THEN Commit([s EXCEPT
            !.db.tags = {IF t.id = tag_id
                         THEN [t EXCEPT !.usage_count =
                                  IF t.usage_count + increment > 0
                                  THEN t.usage_count + increment ELSE 0]
                         ELSE t : t \in @},
            !.floored = @ \/ \E t \in s.db.tags :
                                t.id = tag_id /\ t.usage_count + increment < 0])
    ELSE s

\* for tag_name in names: if tag_name.strip(): get_or_create_tag; append to
\* founder.tags; update_tag_usage_count(+1).
RECURSIVE attach_founder_tags(_, _, _, _)
attach_founder_tags(s, fid, names, category) ==
    IF s.err \/ names = <<>> THEN s
    ELSE LET n == strip(Head(names)) IN
         IF n = <<>> THEN attach_founder_tags(s, fid, Tail(names), category)
         ELSE LET s1 == get_or_create_tag(s, n, category) IN
              IF s1.err THEN s1
              ELSE LET tid == TagId(s1.db, n, category)
                       s2 == [s1 EXCEPT !.db.founder_tags = @ \cup {<<fid, tid>>}]
                   IN attach_founder_tags(update_tag_usage_count(s2, tid, 1),
                                          fid, Tail(names), category)

\* The same loop on db_company.tags.
RECURSIVE attach_company_tags(_, _, _, _)
attach_company_tags(s, cid, names, category) ==
    IF s.err \/ names = <<>> THEN s
    ELSE LET n == strip(Head(names)) IN
         IF n = <<>> THEN attach_company_tags(s, cid, Tail(names), category)
         ELSE LET s1 == get_or_create_tag(s, n, category) IN
              IF s1.err THEN s1
              ELSE LET tid == TagId(s1.db, n, category)
                       s2 == [s1 EXCEPT !.db.company_tags = @ \cup {<<cid, tid>>}]
                   IN attach_company_tags(update_tag_usage_count(s2, tid, 1),
                                          cid, Tail(names), category)

\* ------------------------------------------------------------------ relational store: people

\* A variant of PersonNameFree: no UNIQUE constraint on people.name.
PersonNameFree_unconstrained(db, pid, name) == TRUE

\* people.name is UNIQUE, checked at the flush that follows the rename.
PersonNameFree(db, pid, name) ==
    ~ \E q \in db.people : q.id # pid /\ q.name = name

create_person(s, name) ==
    LET pid == NextId(s.db.people) IN
    IF ~ PersonNameFree(s.db, pid, name)
    THEN [s |-> Raise(s, "people.name"), pid |-> 0]
    ELSE [s |-> [s EXCEPT !.db.people = @ \cup {[id |-> pid, name |-> name]}],
          pid |-> pid]

\* A variant of get_or_create_person that looks the Person up by name only.
get_or_create_person_by_name(s, fd) ==
    LET byName == {p \in s.db.people : p.name = fd.name}
    IN IF fd.name # ""
       THEN IF byName # {}
            THEN [s |-> s, pid |-> (CHOOSE p \in byName : TRUE).id]
            ELSE create_person(s, fd.name)
       ELSE [s |-> s, pid |-> 0]

\* Returns the session and the id of the Person (0 for None).
get_or_create_person(s, fd) ==
    LET byId == {p \in s.db.people : p.id = fd.person_id}
        byName == {p \in s.db.people : p.name = fd.name}
    IN IF fd.person_id # 0 /\ byId # {}
       THEN LET p == CHOOSE p \in byId : TRUE IN
            IF fd.name # "" /\ p.name # fd.name
            THEN IF PersonNameFree(s.db, p.id, fd.name)
                 THEN [s |-> [s EXCEPT !.db.people =
                                 (@ \ {p}) \cup {[p EXCEPT !.name = fd.name]}],
                       pid |-> p.id]
                 ELSE [s |-> Raise(s, "people.name"), pid |-> 0]
            ELSE [s |-> s, pid |-> p.id]
       ELSE IF fd.name # ""
            THEN IF byName # {}
                 THEN [s |-> s, pid |-> (CHOOSE p \in byName : TRUE).id]
                 ELSE create_person(s, fd.name)
            ELSE [s |-> s, pid |-> 0]

\* ------------------------------------------------------------------ relational store: role records

FounderRow(fid, cid, pid, fd) ==
    LET edu == fd.education_background
        pro == fd.professional_background
    IN [id |-> fid, company_id |-> cid, person_id |-> pid,
        name |-> fd.name, title |-> fd.title,
        background_type |-> fd.background_type, background |-> fd.background,
        education_institution |-> IF edu # <<>> THEN edu[1].institution ELSE NULL,
        education_degree |-> IF edu # <<>> THEN edu[1].degree ELSE NULL,
        education_field |-> IF edu # <<>> THEN edu[1].field ELSE NULL,
        education_year |-> IF edu # <<>> THEN edu[1].year ELSE 0,
        professional_company |-> IF pro # <<>> THEN pro[1].company ELSE NULL,
        professional_position |-> IF pro # <<>> THEN pro[1].position ELSE NULL,
        professional_duration |-> IF pro # <<>> THEN pro[1].duration ELSE NULL,
        professional_description |-> IF pro # <<>> THEN pro[1].description ELSE NULL]

\* A variant of SyncFrom that leaves the professional background alone.
SyncFrom_EducationOnly(other, src) ==
    [other EXCEPT
        !.name = src.name,
        !.background_type = src.background_type,
        !.education_institution = src.education_institution,
        !.education_degree = src.education_degree,
        !.education_field = src.education_field,
        !.education_year = src.education_year]

\* The person-bound fields of src written over another role record.
SyncFrom(other, src) ==
    [other EXCEPT
        !.name = src.name,
        !.background_type = src.background_type,
        !.education_institution = src.education_institution,
        !.education_degree = src.education_degree,
        !.education_field = src.education_field,
        !.education_year = src.education_year,
        !.professional_company = src.professional_company,
        !.professional_position = src.professional_position,
        !.professional_duration = src.professional_duration,
        !.professional_description = src.professional_description]

TagCategory(db, tid) == (CHOOSE t \in db.tags : t.id = tid).category

PersonCategories == {"education", "professional"}

\* A variant of propagate_founder_profile that also writes over the role
\* records that have no person_id.
propagate_founder_profile_to_unlinked(s, fid) ==
    LET src == CHOOSE f \in s.db.founders : f.id = fid
        pid == src.person_id
        others == {f \in s.db.founders : f.person_id \in {pid, 0} /\ f.id # fid}
    IN IF pid = 0 THEN s
       ELSE [s EXCEPT
               !.db.founders = (@ \ others) \cup {SyncFrom(o, src) : o \in others}]

propagate_founder_profile(s, fid) ==
    LET src == CHOOSE f \in s.db.founders : f.id = fid
        pid == src.person_id
        person == {p \in s.db.people : p.id = pid}
        rename == person # {} /\ (CHOOSE p \in person : TRUE).name # src.name
        others == {f \in s.db.founders : f.person_id = pid /\ f.id # fid}
        otherIds == {o.id : o \in others}
        srcTags == {ft[2] : ft \in {x \in s.db.founder_tags :
                        x[1] = fid /\ TagCategory(s.db, x[2]) \in PersonCategories}}
    IN IF pid = 0 THEN s
       ELSE IF rename /\ ~ PersonNameFree(s.db, pid, src.name) THEN Raise(s, "people.name")
       ELSE [s EXCEPT
               !.db.people = IF rename
                             THEN {IF p.id = pid THEN [p EXCEPT !.name = src.name]
                                   ELSE p : p \in @}
                             ELSE @,
               !.db.founders = (@ \ others) \cup {SyncFrom(o, src) : o \in others},
               !.db.founder_tags =
                   {ft \in @ : ~ (ft[1] \in otherIds
                                  /\ TagCategory(s.db, ft[2]) \in PersonCategories)}
                   \cup (otherIds \X srcTags)]

add_founder(s, cid, fd) ==
    LET r == get_or_create_person(s, fd) IN
    IF r.s.err THEN r.s
    ELSE LET fid == NextId(r.s.db.founders)
             row == FounderRow(fid, cid, r.pid, fd)
             s1 == [r.s EXCEPT !.db.founders = @ \cup {row}]
             s2 == attach_founder_tags(s1, fid, fd.education_tags, "education")
             s3 == attach_founder_tags(s2, fid, fd.professional_tags, "professional")
         IN IF s3.err THEN s3
            ELSE IF row.person_id # 0 THEN propagate_founder_profile(s3, fid)
            ELSE s3

RECURSIVE add_founders(_, _, _)
add_founders(s, cid, fds) ==
    IF s.err \/ fds = <<>> THEN s
    ELSE add_founders(add_founder(s, cid, Head(fds)), cid, Tail(fds))

\* ------------------------------------------------------------------ relational store: investors, relations

\* Rows of company_investors for one company: the table has no key, so a row
\* may be there more than once.
Copies(db, cid, iid) == CopiesIn(<<cid, iid>>, db.company_investors)

InvestorsOf(db, cid) == {i.id : i \in {x \in db.investors : Copies(db, cid, x.id) > 0}}

\* Some investor is linked to the company by more than one row.
HasDuplicateRows(db, cid) == \E iid \in InvestorsOf(db, cid) : Copies(db, cid, iid) > 1

\* The investor named, inserted when missing; db_company.investors.append.
\* A row is written for every appended investor the collection did not hold
\* when it was loaded (loaded: the investors linked before this request).
RECURSIVE add_investors(_, _, _, _)
add_investors(s, cid, names, loaded) ==
    IF s.err \/ names = <<>> THEN s
    ELSE LET found == {i \in s.db.investors : i.name = Head(names)}
             iid == IF found # {} THEN (CHOOSE i \in found : TRUE).id
                    ELSE NextId(s.db.investors)
             s1 == IF found # {} THEN s
                   ELSE [s EXCEPT !.db.investors = @ \cup
                            {[id |-> iid, name |-> Head(names)]}]
             s2 == IF iid \in loaded THEN s1
                   ELSE [s1 EXCEPT !.db.company_investors =
                            @ (+) SetToBag({<<cid, iid>>})]
         IN add_investors(s2, cid, Tail(names), loaded)

\* A variant of RelationRow that always stores the current company as parent.
RelationRow_current_as_parent(db, cid, rel, related) ==
    [id |-> NextId(db.company_relations), parent_id |-> cid,
     child_id |-> related.id, relation_type |-> rel.relation_type]

\* database.CompanyRelation(...): a spinoff is stored under the related
\* company, a parent as a spinoff under the current one, anything else as given.
RelationRow(db, cid, rel, related) ==
    IF rel.relation_type = "spinoff"
    THEN [id |-> NextId(db.company_relations), parent_id |-> related.id,
          child_id |-> cid, relation_type |-> "spinoff"]
    ELSE IF rel.relation_type = "parent"
    THEN [id |-> NextId(db.company_relations), parent_id |-> cid,
          child_id |-> related.id, relation_type |-> "spinoff"]
    ELSE [id |-> NextId(db.company_relations), parent_id |-> cid,
          child_id |-> related.id, relation_type |-> rel.relation_type]

RECURSIVE add_relations(_, _, _)
add_relations(s, cid, rels) ==
    IF s.err \/ rels = <<>> THEN s
    ELSE LET related == {c \in s.db.companies : c.name = Head(rels).related_company_name}
             s1 == IF related = {} THEN s
                   ELSE [s EXCEPT !.db.company_relations = @ \cup
                            {RelationRow(s.db, cid, Head(rels),
                                         CHOOSE c \in related : TRUE)}]
         IN add_relations(s1, cid, Tail(rels))

\* ------------------------------------------------------------------ company records

\* The scalar fields of a company other than its name, in the order of
\* allowed_scalar_keys.
ScalarKeys == {"website", "description", "sector", "location", "high_profile",
               "remuneration", "work_intensity", "company_size", "founded_year",
               "last_funding"}

\* The integer ones; None is 0 for these and NULL for the others.
IntKeys == {"high_profile", "remuneration", "founded_year"}

\* CompanyBase: what a payload that names none of them carries.
DefaultScalars ==
    [website |-> NULL, description |-> NULL, sector |-> NULL, location |-> NULL,
     high_profile |-> 3, remuneration |-> 3, work_intensity |-> "balanced",
     company_size |-> "startup", founded_year |-> 0, last_funding |-> NULL]

\* CompanyUpdate: every scalar field unset.
UnsetScalars == [k \in ScalarKeys |-> <<>>]

\* A variant of CompanyRow that leaves the criteria to the column defaults.
CompanyRow_defaulting(cid, slug, c) ==
    [id |-> cid, name |-> c.name, slug |-> slug,
     website |-> c.website, description |-> c.description,
     sector |-> c.sector, location |-> c.location,
     high_profile |-> 3, remuneration |-> 3, work_intensity |-> "balanced",
     company_size |-> "startup", founded_year |-> c.founded_year,
     last_funding |-> c.last_funding]

\* database.Company(name=..., slug=..., website=..., ...): sector is the enum's
\* value or None, the other fields are taken as they come.
CompanyRow(cid, slug, c) ==
    [id |-> cid, name |-> c.name, slug |-> slug,
     website |-> c.website, description |-> c.description,
     sector |-> IF c.sector # NULL THEN c.sector ELSE NULL,
     location |-> c.location, high_profile |-> c.high_profile,
     remuneration |-> c.remuneration, work_intensity |-> c.work_intensity,
     company_size |-> c.company_size, founded_year |-> c.founded_year,
     last_funding |-> c.last_funding]

\* A variant of set_fields that writes the column default into every field
\* the payload leaves unset.
set_fields_resetting(row, u) ==
    [k \in DOMAIN row |->
        IF k \in ScalarKeys
        THEN IF u[k] # <<>> THEN u[k][1] ELSE DefaultScalars[k]
        ELSE row[k]]

\* for field, value in update_data.items(): setattr(db_company, field, value),
\* update_data being the fields the payload sets (exclude_unset), None included.
set_fields(row, u) ==
    [k \in DOMAIN row |->
        IF k \in ScalarKeys /\ u[k] # <<>> THEN u[k][1] ELSE row[k]]

\* ------------------------------------------------------------------ relational store: companies

\* companies.name and companies.slug are UNIQUE.
CompanyKeyFree(db, cid, name, slug) ==
    ~ \E x \in db.companies : x.id # cid /\ (x.name = name \/ x.slug = slug)

\* crud.create_company: the session it leaves behind (err: it raised).
create_company(db0, c) ==
    LET s0 == Session(db0)
        cid == NextId(db0.companies)
        slug == create_slug(c.name)
    IN IF ~ CompanyKeyFree(db0, cid, c.name, slug) THEN Raise(s0, "companies")
       ELSE LET s1 == [s0 EXCEPT !.db.companies = @ \cup {CompanyRow(cid, slug, c)}]
                s2 == add_founders(s1, cid, c.founders)
                s3 == add_investors(s2, cid, c.investors, {})
                s4 == attach_company_tags(s3, cid, c.secteur_tags, "secteur")
                s5 == attach_company_tags(s4, cid, c.core_business_tags, "core_business")
                s6 == add_relations(s5, cid, c.relations)
            IN IF s6.err THEN s6 ELSE Commit(s6)

\* for tag in db_company.tags: update_tag_usage_count(db, tag.id, -1)
RECURSIVE decrement_tags(_, _)
decrement_tags(s, tids) ==
    IF tids = {} THEN s
    ELSE LET t == CHOOSE x \in tids : TRUE
         IN decrement_tags(update_tag_usage_count(s, t, -1), tids \ {t})

\* The founders part of update_company: the bulk DELETE takes the rows of
\* table founders only, then the list is written as in create_company.
update_founders(s, cid, u) ==
    IF u.founders = <<>> THEN s
    ELSE add_founders([s EXCEPT !.db.founders = {f \in @ : f.company_id # cid}],
                      cid, u.founders[1])

\* The investors part: clear(), then append each. Rows of an investor that is
\* appended again stay as they are; an investor that is dropped loses its rows,
\* and when it had more than one the ORM's row count check may reject the
\* flush (stale: StaleDataError).
update_investors(s, cid, u, stale) ==
    IF s.err \/ u.investors = <<>> THEN s
    ELSE LET loaded == InvestorsOf(s.db, cid)
             s1 == add_investors(s, cid, u.investors[1], loaded)
             kept == {i.id : i \in {x \in s1.db.investors : x.name \in Range(u.investors[1])}}
             dropped == loaded \ kept
         IN IF stale /\ \E iid \in dropped : Copies(s.db, cid, iid) > 1
            THEN Raise(s, "stale")
            ELSE [s1 EXCEPT !.db.company_investors =
                     [r \in {x \in DOMAIN @ : ~ (x[1] = cid /\ x[2] \in dropped)} |-> @[r]]]

\* The tags part: every tag of the company is decremented and unlinked, then
\* the lists given are attached.
update_tags(s, cid, u) ==
    IF s.err \/ (u.secteur_tags = <<>> /\ u.core_business_tags = <<>>) THEN s
    ELSE LET s1 == decrement_tags(s, {ct[2] : ct \in {x \in s.db.company_tags : x[1] = cid}})
             s2 == [s1 EXCEPT !.db.company_tags = {ct \in @ : ct[1] # cid}]
             s3 == IF u.secteur_tags = <<>> THEN s2
                   ELSE attach_company_tags(s2, cid, u.secteur_tags[1], "secteur")
         IN IF u.core_business_tags = <<>> THEN s3
            ELSE attach_company_tags(s3, cid, u.core_business_tags[1], "core_business")

\* crud.update_company on a company that exists.
update_company(db0, cid, u, stale) ==
    LET s0 == Session(db0)
        old == CHOOSE c \in db0.companies : c.id = cid
        name == IF u.name = <<>> THEN old.name ELSE u.name[1]
        slug == IF u.name # <<>> /\ u.name[1] # <<>> THEN create_slug(u.name[1])
                ELSE old.slug
    IN IF ~ CompanyKeyFree(db0, cid, name, slug) THEN Raise(s0, "companies")
       ELSE LET s1 == [s0 EXCEPT !.db.companies =
                          (@ \ {old}) \cup {[set_fields(old, u) EXCEPT
                                                !.name = name, !.slug = slug]}]
                s2 == update_founders(s1, cid, u)
                s3 == update_investors(s2, cid, u, stale)
                s4 == update_tags(s3, cid, u)
            IN IF s4.err THEN s4 ELSE Commit(s4)

\* A variant of delete_company that leaves the company_relations rows as they are.
delete_company_keeping_relations(db0, cid, stale) ==
    LET s0 == Session(db0)
        gone == {f.id : f \in {x \in db0.founders : x.company_id = cid}}
    IN IF stale /\ HasDuplicateRows(db0, cid) THEN Raise(s0, "stale")
       ELSE Commit([s0 EXCEPT
               !.db.companies = {c \in @ : c.id # cid},
               !.db.founders = {f \in @ : f.company_id # cid},
               !.db.founder_tags = {ft \in @ : ft[1] \notin gone},
               !.db.company_tags = {ct \in @ : ct[1] # cid},
               !.db.company_investors = [r \in {x \in DOMAIN @ : x[1] # cid} |-> @[r]]])

\* crud.delete_company on a company that exists: db.delete cascades to the
\* founders (and their tag rows), removes the company's rows of both
\* association tables and sets parent_id / child_id of its relations to NULL.
delete_company(db0, cid, stale) ==
    LET s0 == Session(db0)
        gone == {f.id : f \in {x \in db0.founders : x.company_id = cid}}
    IN IF stale /\ HasDuplicateRows(db0, cid) THEN Raise(s0, "stale")
       ELSE Commit([s0 EXCEPT
               !.db.companies = {c \in @ : c.id # cid},
               !.db.founders = {f \in @ : f.company_id # cid},
               !.db.founder_tags = {ft \in @ : ft[1] \notin gone},
               !.db.company_tags = {ct \in @ : ct[1] # cid},
               !.db.company_investors = [r \in {x \in DOMAIN @ : x[1] # cid} |-> @[r]],
               !.db.company_relations =
                   {[r EXCEPT !.parent_id = IF @ = cid THEN 0 ELSE @,
                              !.child_id = IF @ = cid THEN 0 ELSE @] : r \in @}])

\* ------------------------------------------------------------------ requests

PersonNames == {"Jane", "John"}
TagNames == {<<"x">>, <<"y">>}
TagCategoryEnum == {"secteur", "core_business", "education", "professional"}

OldCo == [company |-> "OldCo", position |-> "CTO", duration |-> NULL, description |-> NULL]
NewCo == [company |-> "NewCo", position |-> "CEO", duration |-> "2y", description |-> NULL]
School == [institution |-> "MIT", degree |-> "MSc", field |-> NULL, year |-> 2010]

NoProfile == [background_type |-> NULL, education_background |-> <<>>,
              professional_background |-> <<>>]
OldProfile == [background_type |-> "professional", education_background |-> <<>>,
               professional_background |-> <<OldCo>>]
NewProfile == [background_type |-> "education", education_background |-> <<School>>,
               professional_background |-> <<NewCo>>]

\* A FounderCreate.
FounderCreate(person_id, name, profile, education_tags, professional_tags) ==
    [person_id |-> person_id, name |-> name, title |-> "CEO", background |-> NULL,
     background_type |-> profile.background_type,
     education_background |-> profile.education_background,
     professional_background |-> profile.professional_background,
     education_tags |-> education_tags, professional_tags |-> professional_tags]

\* A known person with another background, a new person, an explicit
\* person_id with another name, a founder with a tag, and a founder without a
\* name.
FounderInputs ==
    { FounderCreate(0, "Jane", OldProfile, <<>>, <<>>),
      FounderCreate(0, "John", NoProfile, <<>>, <<>>),
      FounderCreate(1, "John", NewProfile, <<>>, <<>>),
      FounderCreate(0, "Jane", OldProfile, <<<<"x">>>>, <<>>),
      FounderCreate(0, "", OldProfile, <<>>, <<>>) }

FounderLists == {<<f>> : f \in FounderInputs}

\* The lists of a company payload other than founders.
Lists(inv, st, ct, rels) ==
    [investors |-> inv, secteur_tags |-> st, core_business_tags |-> ct,
     relations |-> rels]

NoLists == Lists(<<>>, <<>>, <<>>, <<>>)

\* A tag named twice, one name in both categories, an investor named twice,
\* a blank tag with a relation.
ListInputs ==
    { Lists(<<>>, <<<<"x">>, <<"x", " ">>>>, <<>>, <<>>),
      Lists(<<>>, <<<<"x">>>>, <<<<"x">>>>, <<>>),
      Lists(<<"W", "W">>, <<>>, <<<<"y">>>>, <<>>),
      Lists(<<>>, <<<<" ">>>>, <<>>,
            <<[relation_type |-> "parent", related_company_name |-> <<"a">>]>>) }

CompanyNames == {<<"a">>, <<"A">>, <<"c">>}

\* A CompanyCreate.
CompanyCreate(name, fl, l) ==
    [name |-> name, founders |-> fl, investors |-> l.investors,
     secteur_tags |-> l.secteur_tags, core_business_tags |-> l.core_business_tags,
     relations |-> l.relations] @@ DefaultScalars

CompanyCreates ==
    {CompanyCreate(n, <<>>, NoLists) : n \in CompanyNames}
    \cup {CompanyCreate(<<"c">>, fl, NoLists) : fl \in FounderLists}
    \cup {CompanyCreate(<<"c">>, <<>>, l) : l \in ListInputs}

\* A CompanyUpdate: every field is unset (<<>>) or set (<<value>>).
CompanyUpdate(name, fl, inv, st, ct) ==
    [name |-> name, founders |-> fl, investors |-> inv,
     secteur_tags |-> st, core_business_tags |-> ct] @@ UnsetScalars

CompanyUpdates ==
    {CompanyUpdate(<<n>>, <<>>, <<>>, <<>>, <<>>) : n \in {<<"A">>, <<>>}}
    \cup {CompanyUpdate(<<>>, <<fl>>, <<>>, <<>>, <<>>) : fl \in FounderLists \cup {<<>>}}
    \cup {CompanyUpdate(<<>>, <<>>, <<inv>>, <<>>, <<>>) : inv \in {<<>>, <<"V">>}}
    \cup { CompanyUpdate(<<>>, <<>>, <<>>, <<<<<<"x">>>>>>, <<>>),
           CompanyUpdate(<<>>, <<>>, <<>>, <<<<<<"x">>, <<"x", " ">>>>>>, <<>>),
           CompanyUpdate(<<>>, <<>>, <<>>, <<<<>>>>, <<<<<<"x">>>>>>),
           CompanyUpdate(<<>>, <<>>, <<>>, <<>>, <<<<<<"y">>>>>>) }

CompanyIds == 1..2

\* ------------------------------------------------------------------ the relational application (src/main.py)

EmptyDB == [companies |-> {}, founders |-> {}, people |-> {}, tags |-> {},
            investors |-> {}, company_investors |-> EmptyBag, company_tags |-> {},
            founder_tags |-> {}, company_relations |-> {}]

\* insert_sample_data at startup, on an empty database: two companies with the
\* same founder, the second a spinoff of the first.
SampleFirst ==
    CompanyCreate(<<"a">>, <<FounderCreate(0, "Jane", OldProfile, <<>>, <<>>)>>,
                  Lists(<<"V", "W">>, <<>>, <<>>, <<>>))
SampleSecond ==
    CompanyCreate(<<"b">>, <<FounderCreate(0, "Jane", NewProfile, <<>>, <<>>)>>,
                  Lists(<<"V">>, <<>>, <<>>,
                        <<[relation_type |-> "spinoff", related_company_name |-> <<"a">>]>>))

SampleDB == create_company(create_company(EmptyDB, SampleFirst).db, SampleSecond).db

Install(db) ==
    /\ companies' = db.companies
    /\ founders' = db.founders
    /\ people' = db.people
    /\ tags' = db.tags
    /\ investors' = db.investors
    /\ company_investors' = db.company_investors
    /\ company_tags' = db.company_tags
    /\ founder_tags' = db.founder_tags
    /\ company_relations' = db.company_relations

Outcome(s) == IF s.err THEN "error" ELSE "ok"

\* What is remembered of a request: the operation, the company id it was about,
\* its result, whether a usage_count was held at 0, how many stored rows or
\* edges referred to the company before, the tag asked for, the payload or
\* query sent, and the company ids a query returned.
Reply(op, id, result) ==
    [op |-> op, id |-> id, result |-> result, why |-> "", floored |-> FALSE,
     refs |-> 0, tag |-> <<>>, sent |-> <<>>, found |-> {}]

\* The reply to a request that ran in session s.
Answer(op, id, s) ==
    [Reply(op, id, Outcome(s)) EXCEPT !.why = s.why, !.floored = s.floored]

Served(reply) ==
    /\ last' = reply
    /\ nops' = nops + 1
    /\ failed' = (failed \/ reply.result = "error")
    /\ issued' = IF reply.op \in {"create_company", "agent_write"} /\ reply.result = "ok"
                 THEN issued \cup {reply.id} ELSE issued
    /\ UNCHANGED <<backend, calls>>

\* The rows that refer to company cid.
Refs(db, cid) ==
    Cardinality({f \in db.founders : f.company_id = cid})
    + Cardinality({e \in db.company_tags : e[1] = cid})
    + Cardinality(InvestorsOf(db, cid))
    + Cardinality({r \in db.company_relations : r.parent_id = cid \/ r.child_id = cid})

\* POST /api/companies
SqlCreateCompany ==
    /\ backend = "sql" /\ nops < MaxOps
    /\ \E c \in CompanyCreates :
         LET s == create_company(DB, c) IN
         /\ Install(s.db)
         /\ Served([Answer("create_company", NextId(companies), s) EXCEPT !.sent = <<c>>])
    /\ UNCHANGED graphvars

\* PUT /api/companies/{company_id}
SqlUpdateCompany ==
    /\ backend = "sql" /\ nops < MaxOps
    /\ \E cid \in CompanyIds, u \in CompanyUpdates :
         IF \E c \in companies : c.id = cid
         THEN \E stale \in IF HasDuplicateRows(DB, cid) THEN BOOLEAN ELSE {FALSE} :
                LET s == update_company(DB, cid, u, stale) IN
                /\ Install(s.db)
                /\ Served([Answer("update_company", cid, s) EXCEPT !.sent = <<u>>])
         ELSE /\ UNCHANGED sqlvars
              /\ Served([Reply("update_company", cid, "not_found") EXCEPT !.sent = <<u>>])
    /\ UNCHANGED graphvars

\* DELETE /api/companies/{company_id}
SqlDeleteCompany ==
    /\ backend = "sql" /\ nops < MaxOps
    /\ \E cid \in CompanyIds :
         IF \E c \in companies : c.id = cid
         THEN \E stale \in IF HasDuplicateRows(DB, cid) THEN BOOLEAN ELSE {FALSE} :
                LET s == delete_company(DB, cid, stale) IN
                /\ Install(s.db)
                /\ Served([Answer("delete_company", cid, s)
                              EXCEPT !.refs = Refs(DB, cid)])
         ELSE /\ UNCHANGED sqlvars
              /\ Served(Reply("delete_company", cid, "not_found"))
    /\ UNCHANGED graphvars

\* The TagCreate payloads of POST /api/tags.
TagCreates == {[name |-> n, category |-> c] : n \in TagNames,
                                               c \in {"secteur", "core_business"}}

\* POST /api/tags: 400 when the (name, category) pair is stored, else create_tag.
SqlCreateTag ==
    /\ backend = "sql" /\ nops < MaxOps
    /\ \E tg \in TagCreates :
         IF get_tag_by_name_and_category(DB, tg.name, tg.category) # {}
         THEN /\ UNCHANGED sqlvars
              /\ Served([Reply("create_tag", 0, "exists") EXCEPT !.tag = <<tg>>])
         ELSE LET s == create_tag(Session(DB), tg.name, tg.category) IN
              /\ Install(s.db)
              /\ Served([Answer("create_tag", 0, s) EXCEPT !.tag = <<tg>>])
    /\ UNCHANGED graphvars

\* ------------------------------------------------------------------ graph store: statements

\* The graph as one value.
G == [Company |-> gCompany, Person |-> gPerson, Tag |-> gTag, Investor |-> gInvestor,
      HasTag |-> gHasTag, PersonTag |-> gPersonTag, InvestedIn |-> gInvestedIn,
      EmployeeOf |-> gEmployeeOf, FounderOf |-> gFounderOf, Related |-> gRelated]

\* Every session.run is an auto-commit transaction: a statement that breaks a
\* uniqueness constraint writes nothing, what earlier statements wrote stays,
\* and the error ends the request.
GSession(g) == [g |-> g, err |-> FALSE, why |-> "", floored |-> FALSE]

Fail(gs, why) == [gs EXCEPT !.err = TRUE, !.why = why]

\* init_neo4j_constraints: Company.slug, Person.name, Tag.name are UNIQUE
\* (and the ids).
SlugFree(g, cid, slug) == ~ \E c \in g.Company : c.id # cid /\ c.slug = slug
GPersonNameFree(g, pid, name) == ~ \E p \in g.Person : p.id # pid /\ p.name = name
TagNameFree(g, name, category) ==
    ~ \E x \in g.Tag : x.name = name /\ x.category # category

_next_company_id(g) == Max({c.id : c \in g.Company} \cup {0}) + 1
_next_person_id(g) == Max({p.id : p \in g.Person} \cup {0}) + 1

\* MERGE (t:Tag {name, category}) ... MATCH (c:Company {id}) MERGE (c)-[:HAS_TAG]->(t)
merge_company_tag(gs, cid, name, category) ==
    IF ~ TagNameFree(gs.g, name, category) THEN Fail(gs, "Tag.name")
    ELSE [gs EXCEPT
            !.g.Tag = @ \cup {[name |-> name, category |-> category]},
            !.g.HasTag = IF \E c \in gs.g.Company : c.id = cid
                         THEN @ \cup {<<cid, name, category>>} ELSE @]

\* MERGE (t:Tag {name, category}) ... MATCH (p:Person {id}) MERGE (p)-[:HAS_TAG]->(t)
merge_person_tag(gs, pid, name, category) ==
    IF ~ TagNameFree(gs.g, name, category) THEN Fail(gs, "Tag.name")
    ELSE [gs EXCEPT
            !.g.Tag = @ \cup {[name |-> name, category |-> category]},
            !.g.PersonTag = IF \E q \in gs.g.Person : q.id = pid
                            THEN @ \cup {<<pid, name, category>>} ELSE @]

RECURSIVE g_company_tags(_, _, _, _)
g_company_tags(gs, cid, names, category) ==
    IF gs.err \/ names = <<>> THEN gs
    ELSE IF strip(Head(names)) = <<>>
         THEN g_company_tags(gs, cid, Tail(names), category)
         ELSE g_company_tags(merge_company_tag(gs, cid, strip(Head(names)), category),
                             cid, Tail(names), category)

RECURSIVE g_person_tags(_, _, _, _)
g_person_tags(gs, pid, names, category) ==
    IF gs.err \/ names = <<>> THEN gs
    ELSE IF strip(Head(names)) = <<>>
         THEN g_person_tags(gs, pid, Tail(names), category)
         ELSE g_person_tags(merge_person_tag(gs, pid, strip(Head(names)), category),
                            pid, Tail(names), category)

\* Investor by name, created with max(id)+1 when missing; MERGE of the edge.
RECURSIVE g_investors(_, _, _)
g_investors(gs, cid, names) ==
    IF gs.err \/ names = <<>> THEN gs
    ELSE IF Head(names) = "" THEN g_investors(gs, cid, Tail(names))
    ELSE LET found == {i \in gs.g.Investor : i.name = Head(names)}
             iid == IF found # {} THEN (CHOOSE i \in found : TRUE).id
                    ELSE Max({i.id : i \in gs.g.Investor} \cup {0}) + 1
             gs1 == [gs EXCEPT
                       !.g.Investor = @ \cup {[id |-> iid, name |-> Head(names)]},
                       !.g.InvestedIn = IF \E c \in gs.g.Company : c.id = cid
                                        THEN @ \cup {<<iid, cid>>} ELSE @]
         IN g_investors(gs1, cid, Tail(names))

\* Returns the session and the id of the Person.
_get_or_create_person(gs, person_id, name) ==
    LET byId == {p \in gs.g.Person : p.id = person_id}
        byName == {p \in gs.g.Person : p.name = name}
        new_pid == _next_person_id(gs.g)
    IN IF person_id # 0 /\ byId # {}
       THEN IF name # ""
            THEN IF GPersonNameFree(gs.g, person_id, name)
                 THEN [gs |-> [gs EXCEPT !.g.Person =
                                  {IF p.id = person_id THEN [p EXCEPT !.name = name]
                                   ELSE p : p \in @}],
                       pid |-> person_id]
                 ELSE [gs |-> Fail(gs, "Person.name"), pid |-> person_id]
            ELSE [gs |-> gs, pid |-> person_id]
       ELSE IF name # ""
            THEN IF byName # {}
                 THEN [gs |-> gs, pid |-> (CHOOSE p \in byName : TRUE).id]
                 ELSE [gs |-> [gs EXCEPT !.g.Person = @ \cup
                                  {[id |-> new_pid, name |-> name]}],
                       pid |-> new_pid]
            ELSE [gs |-> [gs EXCEPT !.g.Person = @ \cup
                             {[id |-> new_pid, name |-> NULL]}],
                  pid |-> new_pid]

\* The properties of an EMPLOYEE_OF relationship.
EmployeeEdge(pid, cid, emp) ==
    LET edu == emp.education_background
        pro == emp.professional_background
    IN [person_id |-> pid, company_id |-> cid, title |-> emp.title,
        background_type |-> emp.background_type,
        education_institution |-> IF edu # <<>> THEN edu[1].institution ELSE NULL,
        education_degree |-> IF edu # <<>> THEN edu[1].degree ELSE NULL,
        education_field |-> IF edu # <<>> THEN edu[1].field ELSE NULL,
        education_year |-> IF edu # <<>> THEN edu[1].year ELSE 0,
        professional_company |-> IF pro # <<>> THEN pro[1].company ELSE NULL,
        professional_position |-> IF pro # <<>> THEN pro[1].position ELSE NULL,
        professional_duration |-> IF pro # <<>> THEN pro[1].duration ELSE NULL,
        professional_description |-> IF pro # <<>> THEN pro[1].description ELSE NULL]

\* One employee of the payload: the Person, MERGE (p)-[r:EMPLOYEE_OF]->(c) SET r...,
\* then the tags, which hang on the Person.
g_employee(gs, cid, emp) ==
    IF emp.name = "" THEN gs
    ELSE LET r == _get_or_create_person(gs, emp.person_id, emp.name) IN
         IF r.gs.err THEN r.gs
         ELSE LET gs1 == [r.gs EXCEPT !.g.EmployeeOf =
                             IF \E c \in r.gs.g.Company : c.id = cid
                             THEN {e \in @ : ~ (e.person_id = r.pid /\ e.company_id = cid)}
                                  \cup {EmployeeEdge(r.pid, cid, emp)}
                             ELSE @]
                  gs2 == g_person_tags(gs1, r.pid, emp.education_tags, "education")
              IN g_person_tags(gs2, r.pid, emp.professional_tags, "professional")

RECURSIVE g_employees(_, _, _)
g_employees(gs, cid, emps) ==
    IF gs.err \/ emps = <<>> THEN gs
    ELSE g_employees(g_employee(gs, cid, Head(emps)), cid, Tail(emps))

\* ------------------------------------------------------------------ graph store: operations

\* MERGE (c:Company {id}) SET c.slug, c.name, c.website, ...: sector is the
\* payload's or null. A property set to null is not stored, and c.get() of
\* _company_record_to_dict reads it back as None.
CompanyNode(cid, slug, c) ==
    [id |-> cid, name |-> c.name, slug |-> slug,
     website |-> c.website, description |-> c.description,
     sector |-> IF c.sector # NULL THEN c.sector ELSE NULL,
     location |-> c.location, high_profile |-> c.high_profile,
     remuneration |-> c.remuneration, work_intensity |-> c.work_intensity,
     company_size |-> c.company_size, founded_year |-> c.founded_year,
     last_funding |-> c.last_funding]

\* services.create_company; the payload's employees are written, its founders
\* and relations are not.
g_create_company(g0, c) ==
    LET gs0 == GSession(g0)
        new_id == _next_company_id(g0)
        slug == create_slug(c.name)
    IN IF ~ SlugFree(g0, new_id, slug) THEN Fail(gs0, "Company.slug")
       ELSE LET gs1 == [gs0 EXCEPT !.g.Company = @ \cup {CompanyNode(new_id, slug, c)}]
                gs2 == g_company_tags(gs1, new_id, c.secteur_tags, "secteur")
                gs3 == g_company_tags(gs2, new_id, c.core_business_tags, "core_business")
                gs4 == g_investors(gs3, new_id, c.investors)
            IN g_employees(gs4, new_id, c.employees)

\* A variant of g_delete_company that also deletes the tags of the company.
g_delete_company_with_tags(g0, cid) ==
    [GSession(g0) EXCEPT
        !.g.Company = {c \in @ : c.id # cid},
        !.g.Tag = {x \in @ : <<cid, x.name, x.category>> \notin g0.HasTag},
        !.g.HasTag = {e \in @ : e[1] # cid},
        !.g.InvestedIn = {e \in @ : e[2] # cid},
        !.g.EmployeeOf = {e \in @ : e.company_id # cid},
        !.g.FounderOf = {e \in @ : e.company_id # cid},
        !.g.Related = {e \in @ : e[1] # cid /\ e[2] # cid}]

\* services.delete_company: DETACH DELETE.
g_delete_company(g0, cid) ==
    [GSession(g0) EXCEPT
        !.g.Company = {c \in @ : c.id # cid},
        !.g.HasTag = {e \in @ : e[1] # cid},
        !.g.InvestedIn = {e \in @ : e[2] # cid},
        !.g.EmployeeOf = {e \in @ : e.company_id # cid},
        !.g.FounderOf = {e \in @ : e.company_id # cid},
        !.g.Related = {e \in @ : e[1] # cid /\ e[2] # cid}]

\* props: the allowed scalar keys the payload sets to something other than None.
InProps(u, k) == u[k] # <<>> /\ u[k][1] # (IF k \in IntKeys THEN 0 ELSE NULL)

\* A variant of g_props that writes null for every key the payload leaves out.
g_props_resetting(node, u) ==
    [k \in DOMAIN node |->
        IF k \in ScalarKeys
        THEN IF InProps(u, k) THEN u[k][1] ELSE IF k \in IntKeys THEN 0 ELSE NULL
        ELSE node[k]]

\* The node after SET c += props, name and slug apart.
g_props(node, u) ==
    [k \in DOMAIN node |->
        IF k \in ScalarKeys /\ InProps(u, k) THEN u[k][1] ELSE node[k]]

\* SET c += props: the name when given and not None, the slug only when the
\* name is not empty; no statement is run when props is empty.
g_set_props(gs, cid, u) ==
    IF (u.name = <<>> /\ \A k \in ScalarKeys : ~ InProps(u, k))
       \/ ~ \E c \in gs.g.Company : c.id = cid
    THEN gs
    ELSE LET old == CHOOSE c \in gs.g.Company : c.id = cid
             name == IF u.name # <<>> THEN u.name[1] ELSE old.name
             slug == IF u.name # <<>> /\ u.name[1] # <<>> THEN create_slug(u.name[1])
                     ELSE old.slug
         IN IF ~ SlugFree(gs.g, cid, slug) THEN Fail(gs, "Company.slug")
            ELSE [gs EXCEPT !.g.Company =
                     (@ \ {old}) \cup {[g_props(old, u) EXCEPT
                                           !.name = name, !.slug = slug]}]

\* The links of one category removed, then the list merged.
g_replace_tags(gs, cid, tl, category) ==
    IF gs.err \/ tl = <<>> THEN gs
    ELSE g_company_tags([gs EXCEPT !.g.HasTag =
                            {e \in @ : ~ (e[1] = cid /\ e[3] = category)}],
                        cid, tl[1], category)

g_replace_investors(gs, cid, u) ==
    IF gs.err \/ u.investors = <<>> THEN gs
    ELSE g_investors([gs EXCEPT !.g.InvestedIn = {e \in @ : e[2] # cid}],
                     cid, u.investors[1])

g_replace_employees(gs, cid, u) ==
    IF gs.err \/ u.employees = <<>> THEN gs
    ELSE g_employees([gs EXCEPT !.g.EmployeeOf = {e \in @ : e.company_id # cid}],
                     cid, u.employees[1])

\* services.update_company; it asks for the company only at the end, and raises
\* when there is none.
g_update_company(g0, cid, u) ==
    LET gs1 == g_set_props(GSession(g0), cid, u)
        gs2 == g_replace_tags(gs1, cid, u.secteur_tags, "secteur")
        gs3 == g_replace_tags(gs2, cid, u.core_business_tags, "core_business")
        gs4 == g_replace_investors(gs3, cid, u)
        gs5 == g_replace_employees(gs4, cid, u)
    IN IF gs5.err \/ \E c \in gs5.g.Company : c.id = cid THEN gs5 ELSE Fail(gs5, "not_found")

\* services.create_tag: MERGE (t:Tag {name, category}).
g_create_tag(g0, name, category) ==
    IF ~ TagNameFree(g0, name, category) THEN Fail(GSession(g0), "Tag.name")
    ELSE [GSession(g0) EXCEPT !.g.Tag = @ \cup {[name |-> name, category |-> category]}]

\* The properties the agent sets on a FOUNDER_OF relationship.
FounderEdge(pid, cid, f) ==
    [person_id |-> pid, company_id |-> cid, title |-> f.title,
     education_institution |-> f.education_institution,
     professional_company |-> f.professional_company]

RECURSIVE agent_founders(_, _, _)
agent_founders(gs, cid, fs) ==
    IF gs.err \/ fs = <<>> THEN gs
    ELSE IF Head(fs).name = "" THEN agent_founders(gs, cid, Tail(fs))
    ELSE LET f == Head(fs)
             byName == {p \in gs.g.Person : p.name = f.name}
             pid == IF byName # {} THEN (CHOOSE p \in byName : TRUE).id
                    ELSE _next_person_id(gs.g)
             gs1 == [gs EXCEPT
                       !.g.Person = @ \cup {[id |-> pid, name |-> f.name]},
                       !.g.FounderOf =
                           IF \E c \in gs.g.Company : c.id = cid
                           THEN {e \in @ : ~ (e.person_id = pid /\ e.company_id = cid)}
                                \cup {FounderEdge(pid, cid, f)}
                           ELSE @]
         IN agent_founders(gs1, cid, Tail(fs))

\* MATCH (c:Company {id}) SET c.website=$website, c.description=..., c.location,
\* c.company_size, c.founded_year, c.last_funding: what the agent found, null
\* for what it did not find.
agent_scalars(gs, cid, company) ==
    [gs EXCEPT !.g.Company =
        {IF c.id = cid
         THEN [c EXCEPT !.website = company.website,
                        !.description = company.description,
                        !.location = company.location,
                        !.company_size = company.company_size,
                        !.founded_year = company.founded_year,
                        !.last_funding = company.last_funding]
         ELSE c : c \in @}]

\* agent.write_temporary_to_neo4j: the company found by name or created, then
\* its founders.
write_temporary_to_neo4j(g0, payload) ==
    LET gs0 == GSession(g0)
        byName == {c \in g0.Company : c.name = payload.company.name}
        new_id == _next_company_id(g0)
        slug == create_slug(payload.company.name)
    IN IF payload.company.name = <<>> THEN gs0
       ELSE IF byName # {}
       THEN agent_founders(agent_scalars(gs0, (CHOOSE c \in byName : TRUE).id, payload.company),
                           (CHOOSE c \in byName : TRUE).id, payload.founders)
       ELSE IF ~ SlugFree(g0, new_id, slug) THEN Fail(gs0, "Company.slug")
       ELSE agent_founders(
                agent_scalars(
                    [gs0 EXCEPT !.g.Company = @ \cup
                        {[k \in {"id", "name", "slug"} \cup ScalarKeys |->
                            IF k = "id" THEN new_id
                            ELSE IF k = "name" THEN payload.company.name
                            ELSE IF k = "slug" THEN slug
                            ELSE IF k \in IntKeys THEN 0 ELSE NULL]}],
                    new_id, payload.company),
                new_id, payload.founders)

\* ------------------------------------------------------------------ the graph application (src/app/main.py)

\* Employee payloads: the keys services.create_company reads from each entry.
EmployeeInputs ==
    { FounderCreate(0, "Jane", OldProfile, <<<<"x">>>>, <<>>),
      FounderCreate(0, "John", NewProfile, <<>>, <<>>),
      FounderCreate(1, "John", NewProfile, <<<<"x">>>>, <<>>) }

GraphCreate(name, emps, l) ==
    [name |-> name, employees |-> emps, investors |-> l.investors,
     secteur_tags |-> l.secteur_tags, core_business_tags |-> l.core_business_tags]
    @@ DefaultScalars

GraphCreates ==
    {GraphCreate(n, <<>>, NoLists) : n \in CompanyNames}
    \cup {GraphCreate(IF e.name = "Jane" THEN <<"a">> ELSE <<"c">>, <<e>>, NoLists) :
            e \in EmployeeInputs}
    \cup {GraphCreate(<<"a">>, <<>>, l) :
            l \in { Lists(<<"V", "V">>, <<<<"x">>, <<"x", " ">>>>, <<<<"x">>>>, <<>>) }}

\* A CompanyUpdate of the graph application: every field unset (<<>>) or set.
GraphUpdate(name, emps, inv, st, ct) ==
    [name |-> name, employees |-> emps, investors |-> inv,
     secteur_tags |-> st, core_business_tags |-> ct] @@ UnsetScalars

GraphUpdates ==
    {GraphUpdate(<<n>>, <<>>, <<>>, <<>>, <<>>) : n \in {<<"A">>, <<>>}}
    \cup {GraphUpdate(<<>>, <<<<e>>>>, <<>>, <<>>, <<>>) : e \in EmployeeInputs}
    \cup { GraphUpdate(<<>>, <<>>, <<<<"V">>>>, <<<<<<"y">>>>>>, <<<<>>>>) }

GraphCompanyIds == 1..2

\* What the agent extracted about one company.
AgentFounder(name) ==
    [name |-> name, title |-> "CEO", education_institution |-> "MIT",
     professional_company |-> NULL]

\* The company part of what the agent extracted: the name, and nothing found
\* for the other keys.
AgentCompany(name) ==
    [name |-> name, website |-> NULL, description |-> NULL, location |-> NULL,
     company_size |-> NULL, founded_year |-> 0, last_funding |-> NULL]

AgentPayloads ==
    {[company |-> AgentCompany(n), founders |-> fs] :
        n \in {<<"a">>, <<"c">>}, fs \in {<<AgentFounder("Jane")>>}}

\* The edges that touch company cid.
GRefs(g, cid) ==
    Cardinality({e \in g.HasTag : e[1] = cid})
    + Cardinality({e \in g.InvestedIn : e[2] = cid})
    + Cardinality({e \in g.EmployeeOf : e.company_id = cid})
    + Cardinality({e \in g.FounderOf : e.company_id = cid})

GInstall(g) ==
    /\ gCompany' = g.Company
    /\ gPerson' = g.Person
    /\ gTag' = g.Tag
    /\ gInvestor' = g.Investor
    /\ gHasTag' = g.HasTag
    /\ gPersonTag' = g.PersonTag
    /\ gInvestedIn' = g.InvestedIn
    /\ gEmployeeOf' = g.EmployeeOf
    /\ gFounderOf' = g.FounderOf
    /\ gRelated' = g.Related

\* POST /api/companies
GraphCreateCompany ==
    /\ backend = "graph" /\ nops < MaxGraphOps
    /\ \E c \in GraphCreates :
         LET gs == g_create_company(G, c) IN
         /\ GInstall(gs.g)
         /\ Served([Answer("create_company", _next_company_id(G), gs) EXCEPT !.sent = <<c>>])
    /\ UNCHANGED sqlvars

\* PUT /api/companies/{company_id}
GraphUpdateCompany ==
    /\ backend = "graph" /\ nops < MaxGraphOps
    /\ \E cid \in GraphCompanyIds, u \in GraphUpdates :
         LET gs == g_update_company(G, cid, u) IN
         /\ GInstall(gs.g)
         /\ Served([Answer("update_company", cid, gs) EXCEPT !.sent = <<u>>])
    /\ UNCHANGED sqlvars

\* DELETE /api/companies/{company_id}
GraphDeleteCompany ==
    /\ backend = "graph" /\ nops < MaxGraphOps
    /\ \E cid \in GraphCompanyIds :
         LET gs == g_delete_company(G, cid) IN
         /\ GInstall(gs.g)
         /\ Served([Answer("delete_company", cid, gs)
                       EXCEPT !.refs = GRefs(G, cid)])
    /\ UNCHANGED sqlvars

\* POST /api/tags
GraphCreateTag ==
    /\ backend = "graph" /\ nops < MaxGraphOps
    /\ \E tg \in TagCreates :
         LET gs == g_create_tag(G, tg.name, tg.category) IN
         /\ GInstall(gs.g)
         /\ Served([Answer("create_tag", 0, gs) EXCEPT !.tag = <<tg>>])
    /\ UNCHANGED sqlvars

\* run_agent writing what it found about one company.
AgentWrite ==
    /\ backend = "graph" /\ nops < MaxGraphOps
    /\ \E payload \in AgentPayloads :
         LET gs == write_temporary_to_neo4j(G, payload)
             byName == {c \in gCompany : c.name = payload.company.name}
             cid == IF byName # {} THEN (CHOOSE c \in byName : TRUE).id
                    ELSE _next_company_id(G)
         IN /\ GInstall(gs.g)
            /\ Served(Answer(IF byName # {} THEN "agent_update" ELSE "agent_write",
                             cid, gs))
    /\ UNCHANGED sqlvars

\* ------------------------------------------------------------------ specification

StartDB == IF backend = "sql" THEN SampleDB ELSE EmptyDB

Started(reply) ==
    /\ \E db \in {StartDB} :
         /\ companies = db.companies
         /\ founders = db.founders
         /\ people = db.people
         /\ tags = db.tags
         /\ investors = db.investors
         /\ company_investors = db.company_investors
         /\ company_tags = db.company_tags
         /\ founder_tags = db.founder_tags
         /\ company_relations = db.company_relations
    /\ gCompany = {} /\ gPerson = {} /\ gTag = {} /\ gInvestor = {}
    /\ gHasTag = {} /\ gPersonTag = {} /\ gInvestedIn = {}
    /\ gEmployeeOf = {} /\ gFounderOf = {} /\ gRelated = {}
    /\ nops = 0
    /\ last = reply
    /\ issued = {c.id : c \in companies}
    /\ failed = FALSE
    /\ calls = [p \in 1..2 |-> [pc |-> "idle", new_id |-> 0, company |-> <<>>]]

InitStore == Started(Reply("startup", 0, "ok"))

InitSql == backend = "sql" /\ InitStore
InitGraph == backend = "graph" /\ InitStore
Init == backend \in {"sql", "graph"} /\ InitStore

NextSql == SqlCreateCompany \/ SqlUpdateCompany \/ SqlDeleteCompany \/ SqlCreateTag
NextGraph ==
    \/ GraphCreateCompany \/ GraphUpdateCompany \/ GraphDeleteCompany
    \/ GraphCreateTag \/ AgentWrite
Next == NextSql \/ NextGraph

\* The relational application alone, the graph application alone, and either.
SpecSql == InitSql /\ [][NextSql]_vars
SpecGraph == InitGraph /\ [][NextGraph]_vars
Spec == Init /\ [][Next]_vars

\* ------------------------------------------------------------------ detail

\* crud.get_company: the row of company cid, if any.
get_company(db, cid) == {c \in db.companies : c.id = cid}

\* _company_record_to_dict: the keys read from the node with c.get().
_company_record_to_dict(c) == [k \in {"id", "slug", "name"} \cup ScalarKeys |-> c[k]]

\* services.get_company: the company part of the record of company cid, if any.
g_get_company(g, cid) == {_company_record_to_dict(c) : c \in {x \in g.Company : x.id = cid}}

\* ------------------------------------------------------------------ filter

\* Requests served in one run that lists, revises and filters companies.
MaxCatalogueOps == 3

WorkIntensityOrder == <<"chill", "balanced", "intense", "bourrin">>
CompanySizeOrder == <<"early", "startup", "scaleup", "corp">>

\* order.index(value)
Index(order, v) == CHOOSE i \in 1..Len(order) : order[i] = v

\* One dimension of a filter: a value and a comparison (NULL: cmp omitted).
Dim(value, cmp) == <<[value |-> value, cmp |-> cmp]>>

\* The parameters of filter_companies; <<>> is a dimension that is not given.
Query(tg, wi, cs, hp, rm) ==
    [tags |-> tg, work_intensity |-> wi, company_size |-> cs,
     high_profile |-> hp, remuneration |-> rm]

\* The ordinal filter of the relational store: cmp or 'eq'; lte keeps
\* order[: idx + 1], gte keeps order[idx:], anything else the value itself.
\* A value that is not on the scale filters nothing.
OrdinalPass(order, level, d) ==
    IF d = <<>> \/ d[1].value \notin Range(order) THEN TRUE
    ELSE IF d[1].cmp = "lte"
    THEN level \in {order[i] : i \in 1..Index(order, d[1].value)}
    ELSE IF d[1].cmp = "gte"
    THEN level \in {order[i] : i \in Index(order, d[1].value)..Len(order)}
    ELSE level = d[1].value

\* The numeric filter: cmp or 'gte'. A NULL column passes no comparison.
NumericPass(x, d) ==
    IF d = <<>> THEN TRUE
    ELSE IF x = 0 THEN FALSE
    ELSE IF d[1].cmp = "lte" THEN x <= d[1].value
    ELSE IF d[1].cmp = "eq" THEN x = d[1].value
    ELSE x >= d[1].value

\* join(company_tags).join(Tag) once, then .filter(Tag.name == t) for every
\* t: a company passes when one of its joined tag rows has every name asked.
TagsPass(db, cid, names) ==
    names = <<>> \/
    \E e \in db.company_tags :
        /\ e[1] = cid
        /\ \E x \in db.tags : x.id = e[2] /\ \A i \in 1..Len(names) : x.name = names[i]

\* A variant of filter_companies that drops the other filters when tags are given.
filter_companies_tags_only(db, q) ==
    {c.id : c \in {x \in db.companies :
        IF q.tags # <<>> THEN TagsPass(db, x.id, q.tags)
        ELSE /\ OrdinalPass(WorkIntensityOrder, x.work_intensity, q.work_intensity)
             /\ OrdinalPass(CompanySizeOrder, x.company_size, q.company_size)
             /\ NumericPass(x.high_profile, q.high_profile)
             /\ NumericPass(x.remuneration, q.remuneration)}}

\* legacy filter_companies: the ids of query.distinct().all().
filter_companies(db, q) ==
    {c.id : c \in {x \in db.companies :
        /\ TagsPass(db, x.id, q.tags)
        /\ OrdinalPass(WorkIntensityOrder, x.work_intensity, q.work_intensity)
        /\ OrdinalPass(CompanySizeOrder, x.company_size, q.company_size)
        /\ NumericPass(x.high_profile, q.high_profile)
        /\ NumericPass(x.remuneration, q.remuneration)}}

\* The ordinal clause of the graph store. For lte and gte the statement calls
\* index($order, c.work_intensity); Cypher has no function index, so the
\* statement is rejected. Otherwise WHERE c.<level> = $value.
g_ordinal_fails(d) == d # <<>> /\ d[1].cmp \in {"lte", "gte"}

g_ordinal_pass(level, d) == d = <<>> \/ level = d[1].value

\* WHERE t.name IN $tags WITH c, collect(DISTINCT t.name) AS tn
\* WHERE ALL(x IN $tags WHERE x IN tn)
g_tags_pass(g, cid, names) ==
    names = <<>> \/
    \A i \in 1..Len(names) : \E e \in g.HasTag : e[1] = cid /\ e[2] = names[i]

\* services.filter_companies: whether the statement failed, and the ids returned.
g_filter_companies(g, q) ==
    IF g_ordinal_fails(q.work_intensity) \/ g_ordinal_fails(q.company_size)
    THEN [err |-> TRUE, found |-> {}]
    ELSE [err |-> FALSE,
          found |-> {c.id : c \in {x \in g.Company :
              /\ g_tags_pass(g, x.id, q.tags)
              /\ g_ordinal_pass(x.work_intensity, q.work_intensity)
              /\ g_ordinal_pass(x.company_size, q.company_size)
              /\ NumericPass(x.high_profile, q.high_profile)
              /\ NumericPass(x.remuneration, q.remuneration)}}]

\* ------------------------------------------------------------------ export

\* One entry of links. The list may hold the same source, target and relation
\* several times: via tells the entries apart (the rows or the tag an entry
\* was made from).
Link(source, target, relation, via) ==
    [source |-> source, target |-> target, relation |-> relation, via |-> via]

\* companies_graph of src/main.py: the nodes, a founder link for every role
\* with a person_id, and for each of the two attributes, within each group of
\* roles with the same value, a link for every two entries of the group's
\* list of person ids. Employee rows are not part of the store modelled here.
companies_graph(db) ==
    [nodes |-> {<<"company", c.id, c.name>> : c \in db.companies}
               \cup {<<"person", q.id, q.name>> : q \in db.people},
     links |->
        {Link(f.person_id, f.company_id, "founder", f.id) :
            f \in {x \in db.founders : x.person_id # 0}}
        \cup UNION {
            {Link(pr[1].person_id, pr[2].person_id, attr, <<pr[1].id, pr[2].id>>) :
                pr \in {x \in db.founders \X db.founders :
                          /\ x[1].id < x[2].id
                          /\ x[1][attr] # NULL /\ x[1][attr] = x[2][attr]
                          /\ x[1].person_id # 0 /\ x[2].person_id # 0}} :
            attr \in {"education_institution", "professional_company"}}]

\* companies_graph of the graph application: the nodes, a link for every
\* FOUNDER_OF and EMPLOYEE_OF relationship, and a shared_tag link for every
\* row of (p1)-[:HAS_TAG]->(t)<-[:HAS_TAG]-(p2) with id(p1) < id(p2), the
\* internal ids following the order in which the nodes were created.
g_companies_graph(g) ==
    [nodes |-> {<<"company", c.id, c.name>> : c \in g.Company}
               \cup {<<"person", q.id, q.name>> : q \in g.Person},
     links |->
        {Link(e.person_id, e.company_id, "founder", <<>>) : e \in g.FounderOf}
        \cup {Link(e.person_id, e.company_id, "employee", <<>>) : e \in g.EmployeeOf}
        \cup {Link(pr[1][1], pr[2][1], "shared_tag", <<pr[1][2], pr[1][3]>>) :
                 pr \in {x \in g.PersonTag \X g.PersonTag :
                           /\ x[1][1] < x[2][1]
                           /\ x[1][2] = x[2][2] /\ x[1][3] = x[2][3]}}]

\* ------------------------------------------------------------------ the catalogue

\* A CompanyRelationCreate.
Relation(relation_type, name) ==
    [relation_type |-> relation_type, related_company_name |-> name]

\* Three sets of scalar fields: the low end of both scales, every field
\* filled, and the high end of the work scale.
Chill ==
    [DefaultScalars EXCEPT !.work_intensity = "chill", !.company_size = "early",
                           !.high_profile = 1, !.remuneration = 5]
Filled ==
    [website |-> "w", description |-> "d", sector |-> "AI/ML", location |-> "Paris",
     high_profile |-> 5, remuneration |-> 1, work_intensity |-> "intense",
     company_size |-> "corp", founded_year |-> 2020, last_funding |-> "Series A"]
Heavy ==
    [DefaultScalars EXCEPT !.work_intensity = "bourrin", !.company_size = "scaleup"]

\* A payload with its scalar fields replaced.
WithScalars(payload, scalars) ==
    [k \in DOMAIN payload |-> IF k \in ScalarKeys THEN scalars[k] ELSE payload[k]]

\* A company with both tags, one with the first only, one with the second only.
CatalogueCreates ==
    { WithScalars(CompanyCreate(<<"c">>, <<>>,
          Lists(<<>>, <<<<"x">>>>, <<<<"y">>>>, <<Relation("spinoff", <<"a">>)>>)), Chill),
      WithScalars(CompanyCreate(<<"C", " ", "a">>, <<>>,
          Lists(<<>>, <<<<"x">>>>, <<>>,
                <<Relation("parent", <<"a">>), Relation("partner", <<"c">>)>>)), Filled),
      WithScalars(CompanyCreate(<<"c", "b">>, <<>>,
          Lists(<<>>, <<>>, <<<<"y">>>>, <<Relation("partner", <<"b">>)>>)), Heavy) }

GraphCatalogueCreates ==
    { WithScalars(GraphCreate(<<"c">>,
          <<FounderCreate(0, "Jane", OldProfile, <<<<"z">>>>, <<<<"w">>>>)>>,
          Lists(<<>>, <<<<"x">>>>, <<<<"y">>>>, <<>>)), Chill),
      WithScalars(GraphCreate(<<"C", " ", "a">>,
          <<FounderCreate(0, "John", NewProfile, <<<<"z">>>>, <<<<"w">>>>)>>,
          Lists(<<>>, <<<<"x">>>>, <<>>, <<>>)), Filled),
      WithScalars(GraphCreate(<<"c", "b">>,
          <<FounderCreate(0, "Jane", NewProfile, <<<<"z">>>>, <<>>)>>,
          Lists(<<>>, <<>>, <<<<"y">>>>, <<>>)), Heavy) }

\* The fields an update sets: two scalar fields; a field set to null with two
\* others; the name with one scalar field; one tag list and no scalar field.
Revise(u) ==
    { [u EXCEPT !.work_intensity = <<"intense">>, !.website = <<"w">>],
      [u EXCEPT !.sector = <<NULL>>, !.high_profile = <<5>>, !.company_size = <<"corp">>],
      [u EXCEPT !.name = <<<<"c", "b">>>>, !.remuneration = <<1>>],
      [u EXCEPT !.secteur_tags = <<<<<<"y">>>>>>] }

CatalogueUpdates == Revise(CompanyUpdate(<<>>, <<>>, <<>>, <<>>, <<>>))
GraphCatalogueUpdates == Revise(GraphUpdate(<<>>, <<>>, <<>>, <<>>, <<>>))

\* The queries of GET /api/companies/filter.
Queries ==
    { Query(<<>>, <<>>, <<>>, <<>>, <<>>),
      Query(<<<<"x">>>>, <<>>, <<>>, <<>>, <<>>),
      Query(<<<<"x">>, <<"y">>>>, <<>>, <<>>, <<>>, <<>>),
      Query(<<>>, Dim("balanced", "lte"), <<>>, <<>>, <<>>),
      Query(<<>>, Dim("balanced", "gte"), <<>>, <<>>, <<>>),
      Query(<<>>, Dim("balanced", NULL), <<>>, <<>>, <<>>),
      Query(<<>>, Dim("intense", "eq"), <<>>, <<>>, <<>>),
      Query(<<>>, Dim("zen", NULL), <<>>, <<>>, <<>>),
      Query(<<>>, <<>>, Dim("startup", "lte"), <<>>, <<>>),
      Query(<<>>, <<>>, Dim("scaleup", "gte"), <<>>, <<>>),
      Query(<<>>, <<>>, Dim("corp", NULL), <<>>, <<>>),
      Query(<<>>, <<>>, <<>>, Dim(3, NULL), <<>>),
      Query(<<>>, <<>>, <<>>, Dim(3, "lte"), <<>>),
      Query(<<>>, <<>>, <<>>, <<>>, Dim(5, "eq")),
      Query(<<<<"x">>>>, Dim("chill", NULL), <<>>, Dim(1, "eq"), <<>>),
      Query(<<<<"y">>>>, <<>>, Dim("startup", "gte"), <<>>, Dim(3, "lte")),
      Query(<<>>, Dim("balanced", "gte"), Dim("corp", "lte"), Dim(3, NULL), Dim(1, NULL)),
      Query(<<<<"x">>>>, Dim("intense", "eq"), Dim("corp", "eq"), Dim(5, NULL),
            Dim(1, "lte")) }

\* POST /api/companies
CatalogueCreate ==
    /\ backend = "sql" /\ nops < MaxCatalogueOps
    /\ \E c \in CatalogueCreates :
         LET s == create_company(DB, c) IN
         /\ Install(s.db)
         /\ Served([Answer("create_company", NextId(companies), s) EXCEPT !.sent = <<c>>])
    /\ UNCHANGED graphvars

\* PUT /api/companies/{company_id}
CatalogueUpdate ==
    /\ backend = "sql" /\ nops < MaxCatalogueOps
    /\ \E cid \in CompanyIds, u \in CatalogueUpdates :
         IF \E c \in companies : c.id = cid
         THEN \E stale \in IF HasDuplicateRows(DB, cid) THEN BOOLEAN ELSE {FALSE} :
                LET s == update_company(DB, cid, u, stale) IN
                /\ Install(s.db)
                /\ Served([Answer("update_company", cid, s) EXCEPT !.sent = <<u>>])
         ELSE /\ UNCHANGED sqlvars
              /\ Served([Reply("update_company", cid, "not_found") EXCEPT !.sent = <<u>>])
    /\ UNCHANGED graphvars

\* GET /api/companies/filter with filter_companies of the legacy crud module
\* (src/crud.py has no filter_companies of its own).
CatalogueFilter ==
    /\ backend = "sql" /\ nops < MaxCatalogueOps
    /\ \E q \in Queries :
         Served([Reply("filter", 0, "ok") EXCEPT !.sent = <<q>>,
                                                !.found = filter_companies(DB, q)])
    /\ UNCHANGED <<sqlvars, graphvars>>

\* POST /api/companies
GraphCatalogueCreate ==
    /\ backend = "graph" /\ nops < MaxCatalogueOps
    /\ \E c \in GraphCatalogueCreates :
         LET gs == g_create_company(G, c) IN
         /\ GInstall(gs.g)
         /\ Served([Answer("create_company", _next_company_id(G), gs) EXCEPT !.sent = <<c>>])
    /\ UNCHANGED sqlvars

\* PUT /api/companies/{company_id}
GraphCatalogueUpdate ==
    /\ backend = "graph" /\ nops < MaxCatalogueOps
    /\ \E cid \in GraphCompanyIds, u \in GraphCatalogueUpdates :
         LET gs == g_update_company(G, cid, u) IN
         /\ GInstall(gs.g)
         /\ Served([Answer("update_company", cid, gs) EXCEPT !.sent = <<u>>])
    /\ UNCHANGED sqlvars

\* GET /api/companies/filter
GraphCatalogueFilter ==
    /\ backend = "graph" /\ nops < MaxCatalogueOps
    /\ \E q \in Queries :
         LET r == g_filter_companies(G, q) IN
         Served([Reply("filter", 0, IF r.err THEN "error" ELSE "ok")
                    EXCEPT !.sent = <<q>>, !.found = r.found])
    /\ UNCHANGED <<sqlvars, graphvars>>

\* GET /api/graph/companies of the relational application.
CatalogueExport ==
    /\ backend = "sql" /\ nops < MaxCatalogueOps
    /\ Served([Reply("export", 0, "ok") EXCEPT !.found = companies_graph(DB)])
    /\ UNCHANGED <<sqlvars, graphvars>>

\* GET /api/graph/companies of the graph application.
GraphCatalogueExport ==
    /\ backend = "graph" /\ nops < MaxCatalogueOps
    /\ Served([Reply("export", 0, "ok") EXCEPT !.found = g_companies_graph(G)])
    /\ UNCHANGED <<sqlvars, graphvars>>

NextCatalogue ==
    \/ CatalogueCreate \/ CatalogueUpdate \/ CatalogueFilter \/ CatalogueExport
    \/ GraphCatalogueCreate \/ GraphCatalogueUpdate \/ GraphCatalogueFilter
    \/ GraphCatalogueExport

\* Either application, creating, revising and filtering companies.
SpecCatalogue == Init /\ [][NextCatalogue]_vars

\* ------------------------------------------------------------------ the dual-backend variant (src/legacy)

\* Requests served in one run of the dual-backend variant.
MaxMirrorOps == 3

\* How many of the statement groups of _neo4j_sync_company ran before a
\* statement raised: the company, its investors, its tags, its founders, its
\* relations. At 5 the sync ran to its end.
SyncStages == 0..5

\* MERGE (n {id: $id}) SET ...: the node of that id, with the new properties.
Upsert(nodes, node) == {n \in nodes : n.id # node.id} \cup {node}

\* The properties of a FOUNDER_OF relationship written from founder row f.
SyncedFounder(f) == [k \in DOMAIN f \ {"id", "name", "background"} |-> f[k]]

\* _neo4j_sync_company, stopped after the first upto statement groups. Every
\* statement is a MERGE: nothing is ever removed. Employee rows are not part
\* of the relational store modelled here.
_neo4j_sync_company(db, g, cid, upto) ==
    LET row == CHOOSE c \in db.companies : c.id = cid
        invs == {i \in db.investors : Copies(db, cid, i.id) > 0}
        tgs == {x \in db.tags : <<cid, x.id>> \in db.company_tags}
        fs == {f \in db.founders : f.company_id = cid /\ f.person_id # 0}
        ftags == UNION {{<<f.person_id, x.name, x.category>> :
                            x \in {y \in db.tags : /\ <<f.id, y.id>> \in db.founder_tags
                                                    /\ y.category \in PersonCategories}} :
                        f \in fs}
        rels == {r \in db.company_relations : r.parent_id = cid \/ r.child_id = cid}
        g1 == IF upto < 1 THEN g ELSE [g EXCEPT !.Company = Upsert(@, row)]
        g2 == IF upto < 2 THEN g1
              ELSE [g1 EXCEPT
                      !.Investor = {n \in @ : ~ \E i \in invs : i.id = n.id}
                                   \cup {[id |-> i.id, name |-> i.name] : i \in invs},
                      !.InvestedIn = @ \cup {<<i.id, cid>> : i \in invs}]
        g3 == IF upto < 3 THEN g2
              ELSE [g2 EXCEPT
                      !.Tag = @ \cup {[name |-> x.name, category |-> x.category] : x \in tgs},
                      !.HasTag = @ \cup {<<cid, x.name, x.category>> : x \in tgs}]
        g4 == IF upto < 4 THEN g3
              ELSE [g3 EXCEPT
                      !.Person = {n \in @ : ~ \E f \in fs : f.person_id = n.id}
                                 \cup {[id |-> f.person_id, name |-> f.name] : f \in fs},
                      !.FounderOf = {e \in @ : ~ (e.company_id = cid /\
                                                  \E f \in fs : f.person_id = e.person_id)}
                                    \cup {SyncedFounder(f) : f \in fs},
                      !.Tag = @ \cup {[name |-> e[2], category |-> e[3]] : e \in ftags},
                      !.PersonTag = @ \cup ftags]
    IN IF upto < 5 THEN g4
       ELSE [g4 EXCEPT !.Related = @ \cup
               {<<r.parent_id, r.child_id, r.relation_type>> :
                  r \in {q \in rels :
                           {q.parent_id, q.child_id} \subseteq {c.id : c \in g4.Company}}}]

\* A variant of swallow that lets the failure of the sync reach the caller.
swallow_propagating(s, raised) == IF raised THEN Raise(s, "neo4j") ELSE s

\* try: ... except Exception as sync_err: print(...): the failure is logged
\* and the result of the relational write is returned as it is.
swallow(s, raised) == IF raised THEN [s EXCEPT !.why = "neo4j"] ELSE s

MirrorCreates ==
    { CompanyCreate(<<"a">>, <<FounderCreate(0, "Jane", OldProfile, <<<<"y">>>>, <<>>)>>,
                    Lists(<<"V", "W">>, <<<<"x">>>>, <<>>, <<>>)),
      CompanyCreate(<<"c">>, <<FounderCreate(0, "", NoProfile, <<>>, <<>>)>>,
                    Lists(<<"V">>, <<>>, <<>>, <<Relation("spinoff", <<"a">>)>>)) }

MirrorUpdates ==
    { CompanyUpdate(<<>>, <<>>, <<<<"V">>>>, <<>>, <<>>),
      CompanyUpdate(<<<<"A">>>>, <<<<FounderCreate(0, "John", NewProfile, <<>>, <<>>)>>>>,
                    <<>>, <<>>, <<>>),
      CompanyUpdate(<<>>, <<>>, <<>>, <<<<>>>>, <<>>) }

\* What the three writes of the legacy module share: the relational write s
\* is installed; when it committed, the graph statements run up to stage upto
\* and a failure among them is swallowed.
Mirrored(op, cid, s, upto, sent, refs) ==
    /\ Install(s.db)
    /\ GInstall(IF s.err THEN G
                ELSE IF op # "delete_company" THEN _neo4j_sync_company(s.db, G, cid, upto)
                ELSE IF upto < 5 THEN G ELSE g_delete_company(G, cid).g)
    /\ Served([Answer(op, cid, IF s.err THEN s ELSE swallow(s, upto < 5))
                  EXCEPT !.sent = sent, !.refs = refs])

\* create_company of the legacy module: the relational write, then the sync.
MirrorCreate ==
    /\ backend = "dual" /\ nops < MaxMirrorOps
    /\ \E c \in MirrorCreates, upto \in SyncStages :
         Mirrored("create_company", NextId(companies), create_company(DB, c), upto, <<c>>, 0)

\* update_company of the legacy module.
MirrorUpdate ==
    /\ backend = "dual" /\ nops < MaxMirrorOps
    /\ \E cid \in CompanyIds, u \in MirrorUpdates, upto \in SyncStages :
         IF \E c \in companies : c.id = cid
         THEN \E stale \in IF HasDuplicateRows(DB, cid) THEN BOOLEAN ELSE {FALSE} :
                Mirrored("update_company", cid, update_company(DB, cid, u, stale), upto,
                         <<u>>, 0)
         ELSE /\ upto = 5
              /\ UNCHANGED <<sqlvars, graphvars>>
              /\ Served([Reply("update_company", cid, "not_found") EXCEPT !.sent = <<u>>])

\* delete_company of the legacy module; _neo4j_delete_company is one DETACH
\* DELETE, which runs (upto = 5) or raises.
MirrorDelete ==
    /\ backend = "dual" /\ nops < MaxMirrorOps
    /\ \E cid \in CompanyIds, upto \in {0, 5} :
         IF \E c \in companies : c.id = cid
         THEN \E stale \in IF HasDuplicateRows(DB, cid) THEN BOOLEAN ELSE {FALSE} :
                Mirrored("delete_company", cid, delete_company(DB, cid, stale), upto,
                         <<>>, Refs(DB, cid))
         ELSE /\ upto = 5
              /\ UNCHANGED <<sqlvars, graphvars>>
              /\ Served(Reply("delete_company", cid, "not_found"))

InitMirror == backend = "dual" /\ InitStore

NextMirror == MirrorCreate \/ MirrorUpdate \/ MirrorDelete

\* The relational application with the graph store as its mirror.
SpecMirror == InitMirror /\ [][NextMirror]_vars

\* ------------------------------------------------------------------ two concurrent creates (graph application)

\* A variant of merge_company that CREATEs a node whatever the graph holds.
merge_company_creating(g, cid, slug, c) ==
    [g EXCEPT !.Company = @ \cup {CompanyNode(cid, slug, c)}]

\* MERGE (c:Company {id: $id}) SET c.slug=$slug, c.name=$name, ...: the node
\* of that id is matched when there is one, and its properties are overwritten.
merge_company(g, cid, slug, c) ==
    [g EXCEPT !.Company = Upsert(@, CompanyNode(cid, slug, c))]

\* The end of call p in session gs.
RaceReply(p, cid, c, gs) ==
    /\ GInstall(gs.g)
    /\ calls' = [calls EXCEPT ![p].pc = IF gs.err THEN "failed" ELSE "done"]
    /\ last' = [Answer("create_company", cid, gs) EXCEPT !.sent = <<c>>]
    /\ nops' = nops + 1
    /\ failed' = (failed \/ gs.err)
    /\ issued' = IF gs.err THEN issued ELSE issued \cup {cid}

\* The first statement of services.create_company: _next_company_id.
RaceRead(p) ==
    /\ backend = "graph" /\ calls[p].pc = "idle"
    /\ \E c \in GraphCreates :
         calls' = [calls EXCEPT ![p] = [pc |-> "write", new_id |-> _next_company_id(G),
                                        company |-> <<c>>]]
    /\ UNCHANGED <<backend, sqlvars, graphvars, nops, last, issued, failed>>

\* The second statement: the MERGE of the node under the id read before.
RaceWrite(p) ==
    /\ backend = "graph" /\ calls[p].pc = "write"
    /\ LET c == calls[p].company[1]
           cid == calls[p].new_id
           free == SlugFree(G, cid, create_slug(c.name))
       IN /\ GInstall(IF free THEN merge_company(G, cid, create_slug(c.name), c) ELSE G)
          /\ calls' = [calls EXCEPT ![p].pc = IF free THEN "attach" ELSE "failed"]
          /\ last' = IF free THEN last
                     ELSE [Reply("create_company", cid, "error")
                             EXCEPT !.why = "Company.slug", !.sent = <<c>>]
          /\ nops' = IF free THEN nops ELSE nops + 1
          /\ failed' = (failed \/ ~ free)
    /\ UNCHANGED <<backend, sqlvars, issued>>

\* The statements that follow: tags, investors and employees of the payload,
\* and the reply.
RaceAttach(p) ==
    /\ backend = "graph" /\ calls[p].pc = "attach"
    /\ LET c == calls[p].company[1]
           cid == calls[p].new_id
       IN RaceReply(p, cid, c,
             g_employees(g_investors(
                 g_company_tags(g_company_tags(GSession(G), cid, c.secteur_tags, "secteur"),
                                cid, c.core_business_tags, "core_business"),
                 cid, c.investors), cid, c.employees))
    /\ UNCHANGED <<backend, sqlvars>>

NextRace == \E p \in 1..2 : RaceRead(p) \/ RaceWrite(p) \/ RaceAttach(p)

\* Two create_company calls of the graph application, statement by statement.
SpecRace == InitGraph /\ [][NextRace]_vars

\* ------------------------------------------------------------------ slugs

MaxNameLen == 4

\* Characters of a name: a lowercase and an uppercase letter, a digit, a
\* space, a hyphen and a letter outside ASCII.
NameChars == {"a", "A", "1", " ", "-", "é"}

SlugNames == UNION {[1..n -> NameChars] : n \in 0..MaxNameLen}

\* The start of an application that is handed the name n.
InitSlug ==
    /\ backend \in {"sql", "graph"}
    /\ \E n \in SlugNames : Started([Reply("startup", 0, "ok") EXCEPT !.sent = n])

\* create_slug of the name.
Slugify ==
    /\ last.op = "startup"
    /\ Served([Reply("create_slug", 0, "ok")
                  EXCEPT !.sent = last.sent, !.tag = create_slug(last.sent),
                         !.found = {last.sent}])
    /\ UNCHANGED <<sqlvars, graphvars>>

\* create_slug of the slug.
Reslugify ==
    /\ last.op = "create_slug"
    /\ Served([Reply("create_slug_again", 0, "ok")
                  EXCEPT !.sent = last.tag, !.tag = create_slug(last.tag),
                         !.found = last.found])
    /\ UNCHANGED <<sqlvars, graphvars>>

NextSlug == Slugify \/ Reslugify

\* create_slug applied once and twice to every name up to MaxNameLen.
SpecSlug == InitSlug /\ [][NextSlug]_vars

\* ------------------------------------------------------------------ properties

\* The fields of a role record that belong to the person.
Canonical(f) ==
    <<f.name, f.background_type, f.education_institution, f.education_degree,
      f.education_field, f.education_year, f.professional_company,
      f.professional_position, f.professional_duration, f.professional_description>>

\* C1: when every create_company / update_company so far was committed, any
\* two founder role records with the same non-null person_id carry identical
\* canonical fields.
C1_PropagationInvariant ==
    ~ failed =>
        \A f1 \in founders, f2 \in founders :
            (f1.person_id # 0 /\ f1.person_id = f2.person_id)
                => Canonical(f1) = Canonical(f2)

\* C1 witness: a committed update gave a person a background different from the
\* one stored at startup, and the person's role record at another company shows it.
C1_Witness ==
    /\ ~ failed /\ last.op = "update_company" /\ last.result = "ok"
    /\ \E f1 \in founders, f2 \in founders :
         /\ f1.company_id = last.id /\ f2.company_id # last.id
         /\ f1.person_id # 0 /\ f1.person_id = f2.person_id
         /\ f2.professional_company = "OldCo"

\* The usage_count stored for tag id tid, 0 when there is no such tag.
UsageOf(tagrows, tid) ==
    IF \E t \in tagrows : t.id = tid
    THEN (CHOOSE t \in tagrows : t.id = tid).usage_count ELSE 0

\* C2: a request that succeeds raises a tag's usage_count by no more than the
\* number of owner-tag edges it adds for that tag, so that attaching a tag an
\* owner already holds (in the same payload or from before) counts nothing.
C2_NoDoubleCount ==
    [][ last'.result = "ok" =>
          \A t \in tags' :
              t.usage_count - UsageOf(tags, t.id)
                  <= Cardinality({e \in company_tags' \ company_tags : e[2] = t.id})
                     + Cardinality({e \in founder_tags' \ founder_tags : e[2] = t.id}) ]_vars

\* C3: every tag's usage_count is >= 0.
C3_UsageCountNonNegative == \A t \in tags : t.usage_count >= 0

\* C3 witness: the last request decremented a usage_count that stood at 0, and
\* it is still 0.
C3_Witness ==
    /\ last.op = "update_company" /\ last.floored
    /\ \E t \in tags : t.usage_count = 0

\* C4: after a delete_company that went through, nothing stored refers to the
\* company: no founder or employee role record, no company-tag edge, no
\* investor edge, no relation with it as parent or child.
C4_DeleteRemovesReferences ==
    (last.op = "delete_company" /\ last.result = "ok") =>
        /\ ~ \E f \in founders : f.company_id = last.id
        /\ ~ \E e \in company_tags : e[1] = last.id
        /\ ~ \E r \in DOMAIN company_investors : r[1] = last.id
        /\ ~ \E r \in company_relations : r.parent_id = last.id \/ r.child_id = last.id
        /\ ~ \E e \in gHasTag : e[1] = last.id
        /\ ~ \E e \in gInvestedIn : e[2] = last.id
        /\ ~ \E e \in gEmployeeOf \cup gFounderOf : e.company_id = last.id

\* C4 witness: the company deleted last was referred to by several rows or edges.
C4_Witness ==
    /\ last.op = "delete_company" /\ last.result = "ok" /\ last.refs >= 2
    /\ ~ \E c \in companies \cup gCompany : c.id = last.id

\* The rows of a bag of (company_id, investor_id) rows that are not of company cid.
RowsOfOthers(rows, cid) == [r \in {x \in DOMAIN rows : x[1] # cid} |-> rows[r]]

\* C5: delete_company(id) leaves the Person, Tag and Investor sets as they
\* were, and every role record and edge of any other company.
C5_DeleteFrame ==
    [][ last'.op = "delete_company" =>
          LET cid == last'.id
              own == {f.id : f \in {x \in founders : x.company_id = cid}}
          IN /\ people' = people /\ tags' = tags /\ investors' = investors
             /\ gPerson' = gPerson /\ gTag' = gTag /\ gInvestor' = gInvestor
             /\ gPersonTag' = gPersonTag
             /\ {f \in founders' : f.company_id # cid} = {f \in founders : f.company_id # cid}
             /\ {e \in founder_tags' : e[1] \notin own} = {e \in founder_tags : e[1] \notin own}
             /\ {e \in company_tags' : e[1] # cid} = {e \in company_tags : e[1] # cid}
             /\ RowsOfOthers(company_investors', cid) = RowsOfOthers(company_investors, cid)
             /\ {r \in company_relations : r.parent_id # cid /\ r.child_id # cid}
                    \subseteq company_relations'
             /\ {e \in gHasTag' : e[1] # cid} = {e \in gHasTag : e[1] # cid}
             /\ {e \in gInvestedIn' : e[2] # cid} = {e \in gInvestedIn : e[2] # cid}
             /\ {e \in gEmployeeOf' : e.company_id # cid} = {e \in gEmployeeOf : e.company_id # cid}
             /\ {e \in gFounderOf' : e.company_id # cid} = {e \in gFounderOf : e.company_id # cid} ]_vars

\* C5 witness: a company with references was deleted; a tag or an investor that
\* only it used is still stored, and so are the edges of another company.
C5_Witness ==
    /\ last.op = "delete_company" /\ last.result = "ok" /\ last.refs >= 1
    /\ \/ \E i \in investors : ~ \E r \in DOMAIN company_investors : r[2] = i.id
       \/ \E x \in gTag : ~ \E e \in gHasTag : e[2] = x.name /\ e[3] = x.category
    /\ \/ \E f \in founders : f.company_id # last.id
       \/ \E e \in gHasTag \cup gInvestedIn : TRUE

\* C6: there is at most one Company node per name.
C6_OneCompanyPerName ==
    \A c1 \in gCompany, c2 \in gCompany : c1.name = c2.name => c1.id = c2.id

\* C7: there is at most one Person per name, in the people table and among
\* the Person nodes.
C7_OnePersonPerName ==
    /\ \A p \in people, q \in people : p.name = q.name => p.id = q.id
    /\ \A p \in gPerson, q \in gPerson : p.name = q.name => p.id = q.id

\* C7 witness: a role record named an existing person_id with a name that
\* another Person holds; the rename was refused and both Persons are there.
C7_Witness ==
    /\ last.result = "error" /\ last.why \in {"people.name", "Person.name"}
    /\ \E p \in people \cup gPerson, q \in people \cup gPerson : p.id # q.id

\* C8: a tag is identified by (name, category): no request is refused because
\* the name it asks for is stored under another category, and no (name,
\* category) pair is stored twice.
C8_TagsByNameAndCategory ==
    /\ last.why \notin {"tags.name", "Tag.name"}
    /\ \A t1 \in tags, t2 \in tags :
           (t1.name = t2.name /\ t1.category = t2.category) => t1.id = t2.id

\* C9: the id given to a newly created company is greater than every company
\* id handed out before, deleted companies included.
C9_IdsNeverReused ==
    [][ (last'.op = "create_company" /\ last'.result = "ok")
            => \A i \in issued : last'.id > i ]_vars

\* C10: a create_company or update_company that fails on a uniqueness
\* constraint leaves every table as it was before the request.
C10_FailureLeavesNoTrace ==
    [][ (last'.op \in {"create_company", "update_company"}
         /\ last'.why \in {"tags.name", "people.name", "companies"})
            => UNCHANGED sqlvars ]_vars

\* The update payload sent supplies tags of category cat and not of the other.
OnlyCategory(reply, cat) ==
    /\ reply.op = "update_company" /\ reply.result = "ok" /\ reply.sent # <<>>
    /\ IF cat = "secteur"
       THEN reply.sent[1].secteur_tags # <<>> /\ reply.sent[1].core_business_tags = <<>>
       ELSE reply.sent[1].secteur_tags = <<>> /\ reply.sent[1].core_business_tags # <<>>

OtherCategory(cat) == IF cat = "secteur" THEN "core_business" ELSE "secteur"

\* C11: an update that supplies the tags of one category only leaves the
\* company's tag edges of the other category, and the usage_count of the tags
\* on those edges, as they were.
C11_OtherCategoryUntouched ==
    [][ \A cat \in {"secteur", "core_business"} :
          OnlyCategory(last', cat) =>
            LET cid == last'.id
                kept == {e \in company_tags :
                           e[1] = cid /\ TagCategory(DB, e[2]) = OtherCategory(cat)}
            IN /\ kept \subseteq company_tags'
               /\ \A e \in kept : UsageOf(tags', e[2]) = UsageOf(tags, e[2])
               /\ {e \in gHasTag' : e[1] = cid /\ e[3] = OtherCategory(cat)}
                    = {e \in gHasTag : e[1] = cid /\ e[3] = OtherCategory(cat)} ]_vars

\* The (name, category) pairs a payload entry asks for as role tags.
TagsAsked(fd) ==
    {<<strip(n), "education">> : n \in {x \in Range(fd.education_tags) : strip(x) # <<>>}}
    \cup {<<strip(n), "professional">> :
             n \in {x \in Range(fd.professional_tags) : strip(x) # <<>>}}

\* The (name, category) pairs of the tags linked to founder row fid.
TagsOfRole(ftags, tagrows, fid) ==
    {<<x.name, x.category>> : x \in {y \in tagrows : <<fid, y.id>> \in ftags}}

\* The founder rows of company cid, each with its tags.
RolesOf(rows, ftags, tagrows, cid) ==
    {<<f, TagsOfRole(ftags, tagrows, f.id)>> : f \in {x \in rows : x.company_id = cid}}

\* C12: after an update_company that supplies a founders (employees) list, the
\* role records of the company are exactly those built from the list (here
\* lists of at most one entry): its fields and its tags and nothing else; an
\* update that does not supply the list leaves the role records as they were.
C12_RolesReplaced ==
    [][ (last'.op = "update_company" /\ last'.result = "ok") =>
          LET cid == last'.id
              u == last'.sent[1]
          IN IF backend = "sql"
             THEN IF u.founders = <<>>
                  THEN RolesOf(founders', founder_tags', tags', cid)
                         = RolesOf(founders, founder_tags, tags, cid)
                  ELSE \A r \in RolesOf(founders', founder_tags', tags', cid) :
                         /\ u.founders[1] # <<>>
                         /\ r[1] = FounderRow(r[1].id, cid, r[1].person_id, u.founders[1][1])
                         /\ r[2] = TagsAsked(u.founders[1][1])
             ELSE IF u.employees = <<>>
                  THEN {e \in gEmployeeOf' : e.company_id = cid}
                         = {e \in gEmployeeOf : e.company_id = cid}
                  ELSE \A e \in {x \in gEmployeeOf' : x.company_id = cid} :
                         /\ u.employees[1] # <<>>
                         /\ e = EmployeeEdge(e.person_id, cid, u.employees[1][1]) ]_vars

\* The founders (employees) list a create_company or update_company request
\* carried, <<>> when it carried none.
RolesSent(reply) ==
    IF reply.sent = <<>> THEN <<>>
    ELSE IF reply.op = "create_company"
    THEN IF backend = "sql" THEN reply.sent[1].founders ELSE reply.sent[1].employees
    ELSE IF reply.op = "update_company"
    THEN LET l == IF backend = "sql" THEN reply.sent[1].founders
                  ELSE reply.sent[1].employees
         IN IF l = <<>> THEN <<>> ELSE l[1]
    ELSE <<>>

\* The resolution rule for entry fd against the Persons persons, checked on
\* the Person pid the role was bound to and the Persons after the write.
ResolvedAsSpecified(fd, pid, persons, personsAfter) ==
    IF fd.person_id # 0 /\ \E p \in persons : p.id = fd.person_id
    THEN pid = fd.person_id /\ {p.id : p \in personsAfter} = {p.id : p \in persons}
    ELSE IF fd.name # "" /\ \E p \in persons : p.name = fd.name
    THEN /\ \E p \in persons : p.name = fd.name /\ p.id = pid
         /\ personsAfter = persons
    ELSE IF fd.name # ""
    THEN /\ pid \notin {p.id : p \in persons}
         /\ personsAfter = persons \cup {[id |-> pid, name |-> fd.name]}
    ELSE personsAfter = persons

CompanyStated(fd) ==
    IF fd.professional_background # <<>> THEN fd.professional_background[1].company
    ELSE NULL

\* C15: when create_company writes a founder (employee) that resolves to a
\* Person who has a role at another company, that earlier role shows the
\* professional background of the new payload afterwards.
C15_CreateOverwritesEarlierRole ==
    [][ (last'.op = "create_company" /\ last'.result = "ok"
         /\ Len(RolesSent(last')) = 1) =>
          LET fd == RolesSent(last')[1]
              cid == last'.id
          IN /\ \A f \in {x \in founders' : x.company_id = cid /\ x.person_id # 0} :
                    \A o \in {x \in founders' : x.person_id = f.person_id} :
                        o.professional_company = CompanyStated(fd)
             /\ \A e \in {x \in gEmployeeOf' : x.company_id = cid} :
                    \A o \in {x \in gEmployeeOf' \cup gFounderOf' :
                                x.person_id = e.person_id} :
                        o.professional_company = CompanyStated(fd) ]_vars

\* C14: a request that writes a role record without person_id changes no role
\* record of another company, and no request changes the fields or the tags of
\* a role record without person_id that belongs to another company than the
\* one it is about.
C14_UnlinkedRoleIsolated ==
    [][ (last'.op \in {"create_company", "update_company", "delete_company"}) =>
          LET cid == last'.id IN
          /\ \A f \in {x \in founders : x.person_id = 0 /\ x.company_id # cid} :
                /\ f \in founders'
                /\ TagsOfRole(founder_tags', tags', f.id)
                     = TagsOfRole(founder_tags, tags, f.id)
          /\ (last'.result = "ok" /\ Len(RolesSent(last')) = 1
              /\ \A f \in {x \in founders' : x.company_id = cid} : f.person_id = 0)
                => \A c \in {x.company_id : x \in founders \cup founders'} \ {cid} :
                     RolesOf(founders', founder_tags', tags', c)
                       = RolesOf(founders, founder_tags, tags, c) ]_vars

\* C14 witness: a company has a role record without person_id, and the last
\* request wrote a role of a Person at another company, which changed that
\* Person's role at a third.
C14_Witness ==
    /\ last.op = "update_company" /\ last.result = "ok" /\ Len(RolesSent(last)) = 1
    /\ \E a \in founders, f \in founders, o \in founders :
         /\ a.person_id = 0 /\ a.company_id # last.id
         /\ f.company_id = last.id /\ f.person_id # 0
         /\ o.person_id = f.person_id /\ o.company_id \notin {last.id, a.company_id}
         /\ o.professional_company = "OldCo"
         /\ a.professional_company = "OldCo" /\ a.name = ""

\* The query of the filter request that was served last.
Asked == last.sent[1]

\* The dimensions a query supplies.
Supplied(q) == {k \in DOMAIN q : q[k] # <<>>}

\* The ids of the stored companies, and whether company cid has a tag of the
\* given name attached, in the store that is in use.
StoredIds == {c.id : c \in IF backend = "sql" THEN companies ELSE gCompany}

Attached(cid, name) ==
    IF backend = "sql"
    THEN \E e \in company_tags, x \in tags : e[1] = cid /\ x.id = e[2] /\ x.name = name
    ELSE \E e \in gHasTag : e[1] = cid /\ e[2] = name

\* C16: a filter by tag names alone returns exactly the companies that have
\* every listed name attached, for a list of one name and for a list of two
\* distinct names.
C16_TagFilterAnd ==
    (last.op = "filter" /\ Supplied(Asked) = {"tags"})
    => /\ last.result = "ok"
       /\ last.found = {cid \in StoredIds :
                            \A i \in 1..Len(Asked.tags) : Attached(cid, Asked.tags[i])}

\* Whether level is at or below v on the scale order.
AtOrBelow(order, level, v) ==
    \E i, j \in 1..Len(order) : order[i] = level /\ order[j] = v /\ i <= j

\* What the claimed comparison keeps: lte the levels at or below the value,
\* gte those at or above it, eq and an omitted cmp the value itself.
Keeps(order, level, d) ==
    IF d.cmp = "lte" THEN AtOrBelow(order, level, d.value)
    ELSE IF d.cmp = "gte" THEN AtOrBelow(order, d.value, level)
    ELSE level = d.value

\* The stored level of company cid on dimension k.
LevelOf(cid, k) ==
    (CHOOSE c \in (IF backend = "sql" THEN companies ELSE gCompany) : c.id = cid)[k]

\* C17: a filter by one ordinal dimension alone, with a value on the scale,
\* returns exactly the companies whose level the comparison keeps.
C17_OrdinalFilter ==
    \A k \in {"work_intensity", "company_size"} :
        LET order == IF k = "work_intensity" THEN WorkIntensityOrder ELSE CompanySizeOrder
        IN (/\ last.op = "filter" /\ Supplied(Asked) = {k}
            /\ Asked[k][1].value \in Range(order))
           => last.found = {cid \in StoredIds : Keeps(order, LevelOf(cid, k), Asked[k][1])}

\* The query that supplies dimension k of q and nothing else.
Alone(q, k) == [j \in DOMAIN q |-> IF j = k THEN q[j] ELSE <<>>]

\* What the store in use returns for query q.
Returned(q) ==
    IF backend = "sql" THEN [err |-> FALSE, found |-> filter_companies(DB, q)]
    ELSE g_filter_companies(G, q)

\* C18: the companies a filter returns are those returned for each of its
\* dimensions supplied alone, and a filter that supplies no dimension returns
\* every stored company. A filter is refused exactly when one of its
\* dimensions alone is refused.
C18_FilterIntersection ==
    last.op = "filter"
    => /\ last.result = "error" <=> \E k \in Supplied(Asked) : Returned(Alone(Asked, k)).err
       /\ last.result = "ok"
            => last.found = {cid \in StoredIds :
                   \A k \in Supplied(Asked) : cid \in Returned(Alone(Asked, k)).found}

\* A filter over three or more dimensions returned some but not all of the
\* stored companies, and no single dimension of it returns the same.
C18_Witness ==
    /\ last.op = "filter" /\ last.result = "ok"
    /\ Cardinality(Supplied(Asked)) >= 3
    /\ last.found # {} /\ last.found # StoredIds
    /\ \A k \in Supplied(Asked) : Returned(Alone(Asked, k)).found # last.found

\* get_detail of company cid in the store in use.
Detail(cid) == IF backend = "sql" THEN get_company(DB, cid) ELSE g_get_company(G, cid)

\* C19: after a company is created, get_detail of the returned id yields a
\* record whose name and scalar fields are the payload's and whose slug is
\* create_slug of the name.
C19_CreateRoundTrip ==
    (last.op = "create_company" /\ last.result = "ok")
    => /\ Detail(last.id) # {}
       /\ \A r \in Detail(last.id) :
            /\ r.name = last.sent[1].name
            /\ \A k \in ScalarKeys : r[k] = last.sent[1][k]
            /\ r.slug = create_slug(r.name)

\* A company was created from a payload that fills every scalar field with
\* something other than its default and whose name is not its own slug.
C19_Witness ==
    /\ last.op = "create_company" /\ last.result = "ok"
    /\ \A k \in ScalarKeys : last.sent[1][k] # DefaultScalars[k]
    /\ create_slug(last.sent[1].name) # last.sent[1].name
    /\ Detail(last.id) # {}

\* The fields of a company that an update payload may set, its name included,
\* and those that payload u leaves out.
LeftOut(u) == {k \in ScalarKeys \cup {"name"} : u[k] = <<>>}

\* C20: update_company leaves every scalar field that its payload does not
\* supply as it was, and leaves the other companies as they were.
C20_UpdateFrame ==
    [][ (last'.op = "update_company" /\ nops' = nops + 1)
        => LET cid == last'.id
               u == last'.sent[1]
               before == IF backend = "sql" THEN companies ELSE gCompany
               after == IF backend = "sql" THEN companies' ELSE gCompany'
           IN /\ {c \in after : c.id # cid} = {c \in before : c.id # cid}
              /\ \A c \in before : c.id = cid =>
                    \E d \in after : /\ d.id = cid
                                      /\ \A k \in LeftOut(u) : d[k] = c[k] ]_vars

\* An update that supplies some scalar field was applied to a company that
\* holds, in a field the update leaves out, something other than the default.
C20_Witness ==
    /\ last.op = "update_company" /\ last.result = "ok"
    /\ \E k \in ScalarKeys : last.sent[1][k] # <<>>
    /\ \E c \in (IF backend = "sql" THEN companies ELSE gCompany) :
          /\ c.id = last.id
          /\ \E k \in ScalarKeys : last.sent[1][k] = <<>> /\ c[k] # DefaultScalars[k]

\* The (parent, child, type) triple claimed for relation rel of company x to
\* company y.
Normalized(rel, x, y) ==
    IF rel.relation_type = "spinoff" THEN <<y, x, "spinoff">>
    ELSE IF rel.relation_type = "parent" THEN <<x, y, "spinoff">>
    ELSE <<x, y, rel.relation_type>>

\* C21: after create_company of a company with relations, the stored
\* relations of that company are exactly the normalized triples of the
\* relations that name a stored company.
C21_RelationNormalized ==
    (backend = "sql" /\ last.op = "create_company" /\ last.result = "ok")
    => LET x == last.id
           rels == last.sent[1].relations
       IN {<<r.parent_id, r.child_id, r.relation_type>> :
              r \in {q \in company_relations : q.parent_id = x \/ q.child_id = x}}
          = UNION {{Normalized(rels[i], x, c.id) :
                       c \in {d \in companies : d.name = rels[i].related_company_name}} :
                   i \in 1..Len(rels)}

\* A company was created with a parent relation and a relation of another
\* type, the latter to a company that was created as a spinoff.
C21_Witness ==
    /\ backend = "sql" /\ last.op = "create_company" /\ last.result = "ok"
    /\ \E r, q, s \in company_relations :
          /\ r.parent_id = last.id /\ r.relation_type = "spinoff"
          /\ q.parent_id = last.id /\ q.relation_type = "partner"
          /\ s.child_id = q.child_id /\ s.relation_type = "spinoff"

\* The relational write of request op on company cid with payload sent.
RelationalWrite(op, cid, sent, stale) ==
    IF op = "create_company" THEN create_company(DB, sent[1])
    ELSE IF op = "update_company" THEN update_company(DB, cid, sent[1], stale)
    ELSE delete_company(DB, cid, stale)

\* C22: when the graph sync raises after the relational commit, the request
\* still returns its normal result and the relational store holds the
\* committed write.
C22_SyncFailureNotFatal ==
    [][ (backend = "dual" /\ nops' = nops + 1 /\ last'.why = "neo4j")
        => /\ last'.result = "ok"
           /\ \E stale \in BOOLEAN :
                LET s == RelationalWrite(last'.op, last'.id, last'.sent, stale)
                IN ~ s.err /\ DB' = s.db ]_vars

\* The sync of an update raised part-way: the request succeeded, the
\* relational row of the company is the updated one and the graph node is not.
C22_Witness ==
    /\ backend = "dual" /\ last.op = "update_company"
    /\ last.why = "neo4j" /\ last.result = "ok"
    /\ \E c \in companies : c.id = last.id /\ c \notin gCompany
    /\ \E c \in gCompany : c.id = last.id

\* The ids of the investors, the tags and the persons with a founder role
\* that the relational store links to company cid.
RelationalEdges(cid) ==
    [investors |-> {i.id : i \in {x \in investors : Copies(DB, cid, x.id) > 0}},
     tags |-> {<<x.name, x.category>> : x \in {y \in tags : <<cid, y.id>> \in company_tags}},
     founders |-> {f.person_id : f \in {x \in founders : x.company_id = cid /\ x.person_id # 0}}]

\* The same for the graph store.
GraphEdges(cid) ==
    [investors |-> {e[1] : e \in {x \in gInvestedIn : x[2] = cid}},
     tags |-> {<<e[2], e[3]>> : e \in {x \in gHasTag : x[1] = cid}},
     founders |-> {e.person_id : e \in {x \in gFounderOf : x.company_id = cid}}]

\* C28: after an update_company whose sync ran to its end, the graph store's
\* investor, tag and founder edges of the company are those of the relational
\* store.
C28_MirrorConsistency ==
    (backend = "dual" /\ last.op = "update_company" /\ last.result = "ok"
        /\ last.why # "neo4j")
    => GraphEdges(last.id) = RelationalEdges(last.id)

\* The links of the export served last that run between persons.
PersonLinks ==
    {l \in last.found.links :
        l.relation \in {"education_institution", "professional_company", "shared_tag"}}

\* C23: the export of the graph application holds exactly one shared_tag link
\* for every two distinct persons who share a tag, and none for two persons
\* who share none.
C23_OneSharedTagLink ==
    (backend = "graph" /\ last.op = "export")
    => \A p, q \in {x.id : x \in gPerson} :
         p < q =>
           Cardinality({l \in PersonLinks : l.relation = "shared_tag"
                                             /\ {l.source, l.target} = {p, q}})
           = IF \E e, h \in gPersonTag :
                   e[1] = p /\ h[1] = q /\ e[2] = h[2] /\ e[3] = h[3]
             THEN 1 ELSE 0

\* C29: every link between persons in an export joins two distinct persons.
C29_NoSelfLink ==
    last.op = "export" => \A l \in PersonLinks : l.source # l.target

\* C25: however often an investor is named in the payloads of a company, the
\* store holds at most one edge between the company and that investor.
C25_OneEdgePerInvestor ==
    /\ \A c \in companies, i \in investors : Copies(DB, c.id, i.id) <= 1
    /\ \A c \in gCompany, i \in gInvestor :
          Cardinality({e \in gInvestedIn : e = <<i.id, c.id>>}) <= 1

\* C26: when two create_company calls have read the same maximum id, they
\* write under the same new id, and the store does not end up with two
\* Company nodes.
C26_RaceLosesCompany ==
    (/\ \A p \in 1..2 : calls[p].pc \in {"attach", "done"}
     /\ calls[1].new_id = calls[2].new_id)
    => Cardinality(gCompany) <= 1

\* Both calls went through with the same id and different names: one company
\* node is all there is.
C26_Witness ==
    /\ \A p \in 1..2 : calls[p].pc = "done"
    /\ calls[1].new_id = calls[2].new_id
    /\ calls[1].company[1].name # calls[2].company[1].name
    /\ Cardinality(gCompany) = 1

\* A slug: lowercase letters, digits and single hyphens, none of them first
\* or last.
WellFormedSlug(s) ==
    /\ \A i \in 1..Len(s) : s[i] \in LowerCase \cup Digits \cup {"-"}
    /\ s # <<>> => s[1] # "-" /\ s[Len(s)] # "-"
    /\ \A i \in 1..(Len(s) - 1) : ~ (s[i] = "-" /\ s[i + 1] = "-")

\* C24: create_slug of any name is a well-formed slug, and create_slug of a
\* slug it produced is that slug.
C24_SlugIdempotent ==
    /\ last.op \in {"create_slug", "create_slug_again"} => WellFormedSlug(last.tag)
    /\ last.op = "create_slug_again" => last.tag = last.sent

\* A name with an uppercase letter, a leading hyphen and a run of two other
\* characters, slugged twice.
C24_Witness ==
    /\ last.op = "create_slug_again"
    /\ last.found = {<<"-", "A", " ", "é">>}
    /\ last.tag = <<"a">>

\* The company-tag and role-tag rows that point at tag tid.
EdgesAt(tid) ==
    Cardinality({e \in company_tags : e[2] = tid})
    + Cardinality({e \in founder_tags : e[2] = tid})

\* C27: after any sequence of committed create_company, update_company and
\* delete_company, every tag's usage_count is the number of company-tag and
\* role-tag rows that point at it.
C27_UsageCountIsEdgeCount ==
    ~ failed => \A t \in tags : t.usage_count = EdgesAt(t.id)

\* C30: update_company on an id that no stored company has answers
\* not-found or an error, and changes nothing in the store.
C30_UpdateMissingNoEffect ==
    [][ (/\ last'.op = "update_company"
         /\ ~ \E c \in companies \cup gCompany : c.id = last'.id)
        => /\ last'.result \in {"not_found", "error"}
           /\ UNCHANGED <<sqlvars, graphvars>> ]_vars
====
